---- MODULE Spec2Model ----
(***************************************************************************)
(* A model of src/m3u8/playlist/mod.rs: Playlist::from_reader, parse_line, *)
(* validate, validate_tag and write_to_file.                               *)
(*                                                                         *)
(* A text (Rust String / &str) is a sequence of one-character strings.     *)
(* Option<T> is a sequence of length 0 (None) or 1 (Some(v)).              *)
(* An unsigned integer is its decimal numeral without leading zeros (a     *)
(* sequence of digits), so that no numeral of the input overflows the      *)
(* model's own arithmetic; an f32 is a record [neg, ip, fp] of its sign,   *)
(* integer digits (no leading zeros) and fraction digits (no trailing      *)
(* zeros).  The rounding of f32 is not modelled.                           *)
(***************************************************************************)
EXTENDS Integers, Sequences, FiniteSets, TLC

(***************************************************************************)
(* The alphabet of the texts, and the character classes of the regex crate *)
(* restricted to it.                                                       *)
(***************************************************************************)
Digit == {"0", "1", "2", "3", "4", "5", "6", "7", "8", "9"}

Upper == {"A", "B", "C", "D", "E", "F", "G", "H", "I", "J", "K", "L", "M",
          "N", "O", "P", "Q", "R", "S", "T", "U", "V", "W", "X", "Y", "Z"}

Lower == {"a", "b", "c", "d", "e", "f", "g", "h", "i", "j", "k", "l", "m",
          "n", "o", "p", "q", "r", "s", "t", "u", "v", "w", "x", "y", "z"}

Space == {" ", "\n", "\t", "\r"}

Punct == {"#", ":", ",", ".", "\"", "=", "-", "@", "/", "_"}

Chars == Digit \cup Upper \cup Lower \cup Space \cup Punct

\* \w
Word == Digit \cup Upper \cup Lower \cup {"_"}

\* \S and [^\s]
NonSpace == Chars \ Space

\* .  (every character but the line feed)
Dot == Chars \ {"\n"}

\* [^"]
NotQuote == Chars \ {"\""}

\* [^,]
NotComma == Chars \ {","}

\* [\d\.]
DigitDot == Digit \cup {"."}

\* [A-Za-z0-9\-]
AlnumDash == Digit \cup Upper \cup Lower \cup {"-"}

\* [A-Z-]
UpperDash == Upper \cup {"-"}

(***************************************************************************)
(* Regular expressions (the regex crate).  A pattern is a sequence of      *)
(* nodes.  The crate gives the leftmost-first match: the leftmost start,   *)
(* then at every choice the first alternative, the longest greedy          *)
(* repetition or the shortest lazy repetition for which the rest of the    *)
(* pattern matches.  The matcher follows every way the pattern can match   *)
(* (a thread each) and records in key the rank of the choice taken at each *)
(* choice point; the match is the thread whose key comes first.            *)
(***************************************************************************)
\* one character of the class S
One(S) == [op |-> "cls", set |-> S, min |-> 1, many |-> FALSE, greedy |-> TRUE]

\* S?
Maybe(S) == [op |-> "cls", set |-> S, min |-> 0, many |-> FALSE, greedy |-> TRUE]

\* S+
Plus(S) == [op |-> "cls", set |-> S, min |-> 1, many |-> TRUE, greedy |-> TRUE]

\* S*
Star(S) == [op |-> "cls", set |-> S, min |-> 0, many |-> TRUE, greedy |-> TRUE]

\* S*?
LazyStar(S) == [op |-> "cls", set |-> S, min |-> 0, many |-> TRUE, greedy |-> FALSE]

\* the literal text str
Lit(str) == <<[op |-> "lit", str |-> str]>>

\* ( ... ) with capture index g
Group(g, sub) == <<[op |-> "open", g |-> g]>> \o sub \o <<[op |-> "close", g |-> g]>>

\* (?: ... )?
Optional(sub) == <<[op |-> "opt", sub |-> sub]>>

\* (?: a | b )
Either(a, b) == <<[op |-> "alt", a |-> a, b |-> b]>>

\* the number of characters of S from position pos of s on: all of them, or
\* at most one
RunLen(S, s, pos, many) ==
    LET left == Len(s) - pos + 1
        lim == IF many \/ left < 1 THEN left ELSE 1
    IN  CHOOSE k \in 0..lim :
            /\ \A i \in 0..(k - 1) : s[pos + i] \in S
            /\ k = lim \/ ~(s[pos + k] \in S)

\* str occurs in s at position pos
LitAt(str, s, pos) ==
    pos + Len(str) - 1 <= Len(s) /\ SubSeq(s, pos, pos + Len(str) - 1) = str

Choice(T, rank) == {[t EXCEPT !.key = Append(@, rank)] : t \in T}

RECURSIVE Run(_, _, _)
\* the threads T after the node n
Step(n, s, T) ==
    CASE n.op = "lit" ->
            {[t EXCEPT !.pos = @ + Len(n.str)] : t \in {u \in T : LitAt(n.str, s, u.pos)}}
      [] n.op = "cls" ->
            UNION {LET run == RunLen(n.set, s, t.pos, n.many)
                   IN  {[t EXCEPT !.pos = @ + k,
                                  !.key = Append(@, IF n.greedy THEN run - k
                                                    ELSE k - n.min)] :
                        k \in n.min..run} : t \in T}
      [] n.op = "open" -> {[t EXCEPT !.starts[n.g] = t.pos] : t \in T}
      [] n.op = "close" -> {[t EXCEPT !.caps[n.g] = <<t.starts[n.g], t.pos>>] : t \in T}
      [] n.op = "opt" -> Run(n.sub, s, Choice(T, 0)) \cup Choice(T, 1)
      [] n.op = "alt" -> Run(n.a, s, Choice(T, 0)) \cup Run(n.b, s, Choice(T, 1))

\* the threads T after the nodes of a pattern
Run(nodes, s, T) ==
    IF Len(nodes) = 0 \/ T = {} THEN T
    ELSE Run(Tail(nodes), s, Step(Head(nodes), s, T))

\* key a comes before key b
KeyLess(a, b) ==
    \E i \in 1..Len(a) :
        /\ i <= Len(b)
        /\ a[i] < b[i]
        /\ \A j \in 1..(i - 1) : a[j] = b[j]

\* the threads that start at the positions from pos on, the leftmost first
Starts(ng, s, pos) ==
    {[pos |-> p, key |-> <<p>>, starts |-> [g \in 1..ng |-> 0],
      caps |-> [g \in 1..ng |-> <<>>]] : p \in pos..(Len(s) + 1)}

\* the leftmost-first match of re in s at or after pos: <<>> when there is
\* none, else <<[end, caps]>> with the position after the match and the
\* capture groups
SearchFrom(re, ng, s, pos) ==
    LET T == Run(re, s, Starts(ng, s, pos))
    IN  IF T = {} THEN <<>>
        ELSE LET m == CHOOSE t \in T : \A u \in T \ {t} : KeyLess(t.key, u.key)
             IN  <<[end |-> m.pos, caps |-> m.caps]>>

\* Regex::captures
Captures(re, ng, s) == SearchFrom(re, ng, s, 1)

\* Regex::captures_iter: the successive non-overlapping matches, in order
\* (no pattern of this program matches the empty text)
RECURSIVE CapturesIter(_, _, _, _)
CapturesIter(re, ng, s, pos) ==
    LET r == SearchFrom(re, ng, s, pos)
    IN  IF Len(r) = 0 THEN <<>>
        ELSE <<r[1]>> \o CapturesIter(re, ng, s, r[1].end)

\* Captures::get(g): None, or Some(the text of group g)
Get(m, s, g) ==
    IF Len(m.caps[g]) = 0 THEN <<>>
    ELSE <<SubSeq(s, m.caps[g][1], m.caps[g][2] - 1)>>

(***************************************************************************)
(* The str methods the program calls.                                      *)
(***************************************************************************)
\* str::trim
Trim(s) ==
    LET keep == {i \in 1..Len(s) : ~(s[i] \in Space)}
    IN  IF keep = {} THEN <<>>
        ELSE SubSeq(s, CHOOSE i \in keep : \A j \in keep : i <= j,
                       CHOOSE i \in keep : \A j \in keep : i >= j)

\* str::starts_with
StartsWith(s, p) == Len(s) >= Len(p) /\ SubSeq(s, 1, Len(p)) = p

\* str::split on one character: the pieces between the occurrences of c,
\* the empty ones included
Split(s, c) ==
    LET at == {i \in 1..Len(s) : s[i] = c}
        \* the position of the k-th occurrence; 0 and Len(s) + 1 bound the text
        Nth(k) == IF k = 0 THEN 0
                  ELSE IF k > Cardinality(at) THEN Len(s) + 1
                  ELSE CHOOSE i \in at : Cardinality({j \in at : j < i}) = k - 1
    IN  [k \in 1..(Cardinality(at) + 1) |-> SubSeq(s, Nth(k - 1) + 1, Nth(k) - 1)]

(***************************************************************************)
(* Numbers.                                                                *)
(***************************************************************************)
DigitSeq == <<"0","1","2","3","4","5","6","7","8","9">>

DigitOrd(c) == CHOOSE i \in 1..Len(DigitSeq) : DigitSeq[i] = c

\* ds without its leading zeros
StripLeadingZeros(ds) ==
    LET nz == {i \in 1..Len(ds) : ds[i] # "0"}
    IN  IF nz = {} THEN <<>>
        ELSE SubSeq(ds, CHOOSE i \in nz : \A j \in nz : i <= j, Len(ds))

\* ds without its trailing zeros
StripTrailingZeros(ds) ==
    LET nz == {i \in 1..Len(ds) : ds[i] # "0"}
    IN  IF nz = {} THEN <<>>
        ELSE SubSeq(ds, 1, CHOOSE i \in nz : \A j \in nz : i >= j)

\* the numeral of the value of a digit string: no leading zeros, "0" for zero
Numeral(ds) ==
    LET v == StripLeadingZeros(ds) IN IF Len(v) = 0 THEN <<"0">> ELSE v

\* a < b for two numerals of equal length
LexLess(a, b) ==
    \E i \in 1..Len(a) :
        /\ DigitOrd(a[i]) < DigitOrd(b[i])
        /\ \A j \in 1..(i - 1) : a[j] = b[j]

\* a < b, a <= b for two numerals
NumLess(a, b) == Len(a) < Len(b) \/ (Len(a) = Len(b) /\ LexLess(a, b))

NumLeq(a, b) == a = b \/ NumLess(a, b)

AllIn(s, S) == \A i \in 1..Len(s) : s[i] \in S

\* u32::MAX
U32Max == <<"4","2","9","4","9","6","7","2","9","5">>

\* The largest value of the integer fields of Tag (ExtXVersion,
\* ExtXTargetDuration, ExtXMediaSequence, ExtXDiscontinuitySequence, the
\* bandwidths).  Their types are declared with Tag; the model takes the
\* widest unsigned type, u128, so that a numeral overflows here only if it
\* overflows every type the field can have.
TagIntMax == <<"3","4","0","2","8","2","3","6","6","9","2","0","9","3","8","4","6","3","4","6","3","3","7","4","6","0","7","4","3","1","7","6","8","2","1","1","4","5","5">>

\* str::parse::<u32>(): Err (<<>>) or Ok(<<numeral>>)
ParseU32(s) ==
    IF Len(s) > 0 /\ AllIn(s, Digit) /\ NumLeq(Numeral(s), U32Max)
    THEN <<Numeral(s)>>
    ELSE <<>>

\* str::parse() to an integer field of Tag, for a text the pattern \d+ matched
ParseTagInt(s) ==
    IF Len(s) > 0 /\ AllIn(s, Digit) /\ NumLeq(Numeral(s), TagIntMax)
    THEN <<Numeral(s)>>
    ELSE <<>>

\* the position of the first "." of s, 0 if there is none
DotAt(s) ==
    LET at == {i \in 1..Len(s) : s[i] = "."}
    IN  IF at = {} THEN 0 ELSE CHOOSE i \in at : \A j \in at : i <= j

F32(neg, ip, fp) ==
    LET i == StripLeadingZeros(ip)
        f == StripTrailingZeros(fp)
    IN  [neg |-> neg /\ (Len(i) > 0 \/ Len(f) > 0), ip |-> i, fp |-> f]

\* str::parse::<f32>(): Err (<<>>) or Ok(<<value>>) for a decimal text
\* [-]digits[.digits]; an exponent and the spellings of inf and nan are not
\* modelled (no input of the model has them).
ParseF32(s) ==
    LET neg == Len(s) > 0 /\ s[1] = "-"
        body == IF neg THEN Tail(s) ELSE s
        d == DotAt(body)
        ip == IF d = 0 THEN body ELSE SubSeq(body, 1, d - 1)
        fp == IF d = 0 THEN <<>> ELSE SubSeq(body, d + 1, Len(body))
    IN  IF AllIn(ip, Digit) /\ AllIn(fp, Digit) /\ Len(ip) + Len(fp) > 0
        THEN <<F32(neg, ip, fp)>>
        ELSE <<>>

F32Zero == F32(FALSE, <<>>, <<>>)

\* x <= 0.0
F32LeqZero(x) == x.neg \/ x = F32Zero

(***************************************************************************)
(* Tag (crate::m3u8::tags::Tag).  A tag is a record of the name of its     *)
(* variant and, under that name, the fields of the variant.                *)
(***************************************************************************)
ExtM3U == [tag |-> "ExtM3U"]

ExtXVersion(v) ==
    [tag |-> "ExtXVersion", ExtXVersion |-> v]

ExtXTargetDuration(v) ==
    [tag |-> "ExtXTargetDuration", ExtXTargetDuration |-> v]

ExtXPlaylistType(v) ==
    [tag |-> "ExtXPlaylistType", ExtXPlaylistType |-> v]

ExtXMediaSequence(v) ==
    [tag |-> "ExtXMediaSequence", ExtXMediaSequence |-> v]

ExtXDiscontinuitySequence(v) ==
    [tag |-> "ExtXDiscontinuitySequence", ExtXDiscontinuitySequence |-> v]

ExtXEndList == [tag |-> "ExtXEndList"]

ExtXKey(method, uri, iv, keyformat, keyformatversions) ==
    [tag |-> "ExtXKey",
     ExtXKey |->
        [method |-> method, uri |-> uri, iv |-> iv,
         keyformat |-> keyformat,
         keyformatversions |-> keyformatversions]]

ExtXMap(uri, byterange) ==
    [tag |-> "ExtXMap",
     ExtXMap |->
        [uri |-> uri, byterange |-> byterange]]

ExtXProgramDateTime(v) ==
    [tag |-> "ExtXProgramDateTime", ExtXProgramDateTime |-> v]

ExtXDiscontinuity == [tag |-> "ExtXDiscontinuity"]

ExtXPart(uri, duration, independent) ==
    [tag |-> "ExtXPart",
     ExtXPart |->
        [uri |-> uri, duration |-> duration, independent |-> independent]]

ExtXPartInf(part_target_duration, part_number) ==
    [tag |-> "ExtXPartInf",
     ExtXPartInf |->
        [part_target_duration |-> part_target_duration,
         part_number |-> part_number]]

ExtXServerControl(can_play, can_seek, can_pause, min_buffer_time, can_block_reload, part_hold_back, can_skip_until) ==
    [tag |-> "ExtXServerControl",
     ExtXServerControl |->
        [can_play |-> can_play, can_seek |-> can_seek,
         can_pause |-> can_pause, min_buffer_time |-> min_buffer_time,
         can_block_reload |-> can_block_reload,
         part_hold_back |-> part_hold_back,
         can_skip_until |-> can_skip_until]]

ExtXSkip(skipped_segments, recently_removed_dateranges) ==
    [tag |-> "ExtXSkip",
     ExtXSkip |->
        [skipped_segments |-> skipped_segments,
         recently_removed_dateranges |-> recently_removed_dateranges]]

ExtXStart(time_offset, precise) ==
    [tag |-> "ExtXStart",
     ExtXStart |->
        [time_offset |-> time_offset, precise |-> precise]]

ExtXIndependentSegments == [tag |-> "ExtXIndependentSegments"]

ExtXStreamInf(bandwidth, resolution, codecs, frame_rate, audio, video, subtitle, closed_captions) ==
    [tag |-> "ExtXStreamInf",
     ExtXStreamInf |->
        [bandwidth |-> bandwidth, resolution |-> resolution,
         codecs |-> codecs, frame_rate |-> frame_rate, audio |-> audio,
         video |-> video, subtitle |-> subtitle,
         closed_captions |-> closed_captions]]

ExtXMedia(type_, group_id, name, language, instream_id, language_codec, default, autoplay, characteristics, uri, forced) ==
    [tag |-> "ExtXMedia",
     ExtXMedia |->
        [type_ |-> type_, group_id |-> group_id, name |-> name,
         language |-> language, instream_id |-> instream_id,
         language_codec |-> language_codec, default |-> default,
         autoplay |-> autoplay, characteristics |-> characteristics,
         uri |-> uri, forced |-> forced]]

ExtXRenditionReport(uri, bandwidth) ==
    [tag |-> "ExtXRenditionReport",
     ExtXRenditionReport |->
        [uri |-> uri, bandwidth |-> bandwidth]]

ExtXByteRange(v) ==
    [tag |-> "ExtXByteRange", ExtXByteRange |-> v]

ExtXIFrameStreamInf(bandwidth, codecs, resolution, frame_rate, uri) ==
    [tag |-> "ExtXIFrameStreamInf",
     ExtXIFrameStreamInf |->
        [bandwidth |-> bandwidth, codecs |-> codecs,
         resolution |-> resolution, frame_rate |-> frame_rate,
         uri |-> uri]]

ExtXSessionData(id, value, language) ==
    [tag |-> "ExtXSessionData",
     ExtXSessionData |->
        [id |-> id, value |-> value, language |-> language]]

ExtXPreloadHint(type_, uri, byterange) ==
    [tag |-> "ExtXPreloadHint",
     ExtXPreloadHint |->
        [type_ |-> type_, uri |-> uri, byterange |-> byterange]]

\* Tag::ExtInf(segment, duration, title)
ExtInf(uri, duration, title) ==
    [tag |-> "ExtInf",
     ExtInf |->
        [uri |-> uri, duration |-> duration, title |-> title]]

ExtXSessionKey(method, uri, iv) ==
    [tag |-> "ExtXSessionKey",
     ExtXSessionKey |->
        [method |-> method, uri |-> uri, iv |-> iv]]

ExtXGap == [tag |-> "ExtXGap"]

ExtXBitrate(v) ==
    [tag |-> "ExtXBitrate", ExtXBitrate |-> v]

(***************************************************************************)
(* parse_line.  Each `if trimmed.starts_with(..)` block of the function is *)
(* one operator: it gives Fall when control leaves the block and goes on   *)
(* to the next one, and Return(r) when the block returns r or panics.      *)
(***************************************************************************)
Fall == <<>>

Return(r) == <<r>>

\* Ok(Some(tag))
OkSome(t) == [kind |-> "some", tag |-> t]

\* Ok(None)
OkNone == [kind |-> "none"]

\* a panic: unwrap() of None or of Err
Panic == [kind |-> "panic"]

\* Some(x) of an Option that is known to be Some, None.unwrap() otherwise
IsSome(o) == Len(o) > 0

Yes == <<"Y","E","S">>

\* caps.get(g).unwrap().as_str() of a group that took part in the match
Str(m, s, g) == Get(m, s, g)[1]

BrExtM3U(t) ==
    IF StartsWith(t, <<"E","X","T","M","3","U">>) THEN Return(OkSome(ExtM3U)) ELSE Fall

version_re == Lit(<<"E","X","T","-","X","-","V","E","R","S","I","O","N",":">>) \o Group(1, <<Plus(Digit)>>)

BrVersion(t) ==
    IF ~StartsWith(t, <<"E","X","T","-","X","-","V","E","R","S","I","O","N">>) THEN Fall
    ELSE LET c == Captures(version_re, 1, t)
         IN  IF Len(c) = 0 THEN Fall
             ELSE LET v == ParseTagInt(Str(c[1], t, 1))
                  IN  IF IsSome(v) THEN Return(OkSome(ExtXVersion(v[1])))
                      ELSE Return(Panic)

target_duration_re == Lit(<<"E","X","T","-","X","-","T","A","R","G","E","T","D","U","R","A","T","I","O","N",":">>) \o Group(1, <<Plus(Digit)>>)

BrTargetDuration(t) ==
    IF ~StartsWith(t, <<"E","X","T","-","X","-","T","A","R","G","E","T","D","U","R","A","T","I","O","N">>) THEN Fall
    ELSE LET c == Captures(target_duration_re, 1, t)
         IN  IF Len(c) = 0 THEN Fall
             ELSE LET v == ParseTagInt(Str(c[1], t, 1))
                  IN  IF IsSome(v) THEN Return(OkSome(ExtXTargetDuration(v[1])))
                      ELSE Return(Panic)

playlist_type_re == Lit(<<"E","X","T","-","X","-","P","L","A","Y","L","I","S","T","-","T","Y","P","E",":">>) \o Group(1, <<Plus(Word)>>)

BrPlaylistType(t) ==
    IF ~StartsWith(t, <<"E","X","T","-","X","-","P","L","A","Y","L","I","S","T","-","T","Y","P","E">>) THEN Fall
    ELSE LET c == Captures(playlist_type_re, 1, t)
         IN  IF Len(c) = 0 THEN Fall
             ELSE Return(OkSome(ExtXPlaylistType(Str(c[1], t, 1))))

media_sequence_re == Lit(<<"E","X","T","-","X","-","M","E","D","I","A","-","S","E","Q","U","E","N","C","E",":">>) \o Group(1, <<Plus(Digit)>>)

BrMediaSequence(t) ==
    IF ~StartsWith(t, <<"E","X","T","-","X","-","M","E","D","I","A","-","S","E","Q","U","E","N","C","E">>) THEN Fall
    ELSE LET c == Captures(media_sequence_re, 1, t)
         IN  IF Len(c) = 0 THEN Fall
             ELSE LET v == ParseTagInt(Str(c[1], t, 1))
                  IN  IF IsSome(v) THEN Return(OkSome(ExtXMediaSequence(v[1])))
                      ELSE Return(Panic)

discontinuity_seq_re ==
    Lit(<<"E","X","T","-","X","-","D","I","S","C","O","N","T","I","N","U","I","T","Y","-","S","E","Q","U","E","N","C","E",":">>) \o Group(1, <<Plus(Digit)>>)

BrDiscontinuitySequence(t) ==
    IF ~StartsWith(t, <<"E","X","T","-","X","-","D","I","S","C","O","N","T","I","N","U","I","T","Y","-","S","E","Q","U","E","N","C","E">>) THEN Fall
    ELSE LET c == Captures(discontinuity_seq_re, 1, t)
         IN  IF Len(c) = 0 THEN Fall
             ELSE LET v == ParseTagInt(Str(c[1], t, 1))
                  IN  IF IsSome(v) THEN Return(OkSome(ExtXDiscontinuitySequence(v[1])))
                      ELSE Return(Panic)

BrEndList(t) ==
    IF StartsWith(t, <<"E","X","T","-","X","-","E","N","D","L","I","S","T">>) THEN Return(OkSome(ExtXEndList)) ELSE Fall

key_re ==
    Lit(<<"E","X","T","-","X","-","K","E","Y",":","M","E","T","H","O","D","=">>) \o Group(1, <<Plus(AlnumDash)>>)
    \o Lit(<<",","U","R","I","=","\"">>) \o Group(2, <<Plus(NotQuote)>>) \o Lit(<<"\"">>)
    \o Optional(Lit(<<",","I","V","=","\"">>) \o Group(3, <<Star(NotQuote)>>) \o Lit(<<"\"">>))
    \o Optional(Lit(<<",","K","E","Y","F","O","R","M","A","T","=","\"">>) \o Group(4, <<Plus(NotQuote)>>) \o Lit(<<"\"">>))
    \o Optional(Lit(<<",","K","E","Y","F","O","R","M","A","T","V","E","R","S","I","O","N","S","=","\"">>) \o Group(5, <<Plus(NotQuote)>>)
                \o Lit(<<"\"">>))

BrKey(t) ==
    IF ~StartsWith(t, <<"E","X","T","-","X","-","K","E","Y">>) THEN Fall
    ELSE LET c == Captures(key_re, 5, t)
         IN  IF Len(c) = 0 THEN Fall
             ELSE LET m == c[1]
                      method == IF IsSome(Get(m, t, 1)) THEN Str(m, t, 1) ELSE <<>>
                  IN  Return(OkSome(ExtXKey(method, Get(m, t, 2), Get(m, t, 3),
                                            Get(m, t, 4), Get(m, t, 5))))

\* the pattern of map_re, had it taken an empty URI: "([^"]*)" for "([^"]+)"
map_re_empty ==
    Lit(<<"E","X","T","-","X","-","M","A","P",":","U","R","I","=","\"">>) \o Group(1, <<Star(NotQuote)>>) \o Lit(<<"\"">>)
    \o Optional(Lit(<<",","B","Y","T","E","R","A","N","G","E","=","\"">>) \o Group(2, <<Plus(NotQuote)>>) \o Lit(<<"\"">>))

map_re ==
    Lit(<<"E","X","T","-","X","-","M","A","P",":","U","R","I","=","\"">>) \o Group(1, <<Plus(NotQuote)>>) \o Lit(<<"\"">>)
    \o Optional(Lit(<<",","B","Y","T","E","R","A","N","G","E","=","\"">>) \o Group(2, <<Plus(NotQuote)>>) \o Lit(<<"\"">>))

BrMap(t) ==
    IF ~StartsWith(t, <<"E","X","T","-","X","-","M","A","P">>) THEN Fall
    ELSE LET c == Captures(map_re, 2, t)
         IN  IF Len(c) = 0 THEN Fall
             ELSE LET uri == Str(c[1], t, 1)
                      byterange == Get(c[1], t, 2)
                  IN  IF ~IsSome(byterange) \/ byterange[1] = <<>>
                      THEN Return(OkSome(ExtXMap(uri, <<>>)))
                      ELSE Return(OkSome(ExtXMap(uri, byterange)))

datetime_re == Lit(<<"E","X","T","-","X","-","P","R","O","G","R","A","M","-","D","A","T","E","-","T","I","M","E",":">>) \o Group(1, <<Plus(NonSpace)>>)

BrProgramDateTime(t) ==
    IF ~StartsWith(t, <<"E","X","T","-","X","-","P","R","O","G","R","A","M","-","D","A","T","E","-","T","I","M","E">>) THEN Fall
    ELSE LET c == Captures(datetime_re, 1, t)
         IN  IF Len(c) = 0 THEN Fall
             ELSE Return(OkSome(ExtXProgramDateTime(Str(c[1], t, 1))))

BrDiscontinuity(t) ==
    IF StartsWith(t, <<"E","X","T","-","X","-","D","I","S","C","O","N","T","I","N","U","I","T","Y">>)
    THEN Return(OkSome(ExtXDiscontinuity))
    ELSE Fall

part_re ==
    Lit(<<"E","X","T","-","X","-","P","A","R","T",":","U","R","I","=","\"">>) \o Group(1, <<Plus(NotQuote)>>)
    \o Lit(<<"\"",",","D","U","R","A","T","I","O","N","=">>) \o Group(2, <<Plus(DigitDot)>>)

BrPart(t) ==
    IF ~StartsWith(t, <<"E","X","T","-","X","-","P","A","R","T">>) THEN Fall
    ELSE LET c == Captures(part_re, 2, t)
         IN  IF Len(c) = 0 THEN Fall
             ELSE LET uri == Str(c[1], t, 1)
                      duration == ParseF32(Str(c[1], t, 2))
                  IN  IF IsSome(duration)
                      THEN Return(OkSome(ExtXPart(uri, <<duration[1]>>, <<>>)))
                      ELSE Return(Panic)

part_inf_re == Lit(<<"E","X","T","-","X","-","P","A","R","T","-","I","N","F",":","P","A","R","T","-","T","A","R","G","E","T","=">>) \o Group(1, <<Plus(DigitDot)>>)

part_inf_re_alt ==
    Lit(<<"E","X","T","-","X","-","P","A","R","T","-","I","N","F",":","P","A","R","T","-","T","A","R","G","E","T","-","D","U","R","A","T","I","O","N","=">>) \o Group(1, <<Plus(DigitDot)>>)

BrPartInf(t) ==
    IF ~StartsWith(t, <<"E","X","T","-","X","-","P","A","R","T","-","I","N","F">>) THEN Fall
    ELSE LET c == Captures(part_inf_re, 1, t)
             calt == Captures(part_inf_re_alt, 1, t)
         IN  IF Len(c) > 0
             THEN LET d == ParseF32(Str(c[1], t, 1))
                  IN  IF IsSome(d) THEN Return(OkSome(ExtXPartInf(d[1], <<>>)))
                      ELSE Return(Panic)
             ELSE IF Len(calt) > 0
             THEN LET d == ParseF32(Str(calt[1], t, 1))
                  IN  IF IsSome(d) THEN Return(OkSome(ExtXPartInf(d[1], <<>>)))
                      ELSE Return(Panic)
             ELSE Fall

server_control_attr_re ==
    Group(1, <<Plus(UpperDash)>>) \o Lit(<<"=">>) \o Group(2, <<Plus(NotComma)>>)

\* the `match key` of the EXT-X-SERVER-CONTROL block, for one key=value pair
ServerControlAttr(acc, key, value) ==
    CASE key = <<"C","A","N","-","P","L","A","Y">> -> [acc EXCEPT !.can_play = <<value = Yes>>]
      [] key = <<"C","A","N","-","S","E","E","K">> -> [acc EXCEPT !.can_seek = <<value = Yes>>]
      [] key = <<"C","A","N","-","P","A","U","S","E">> -> [acc EXCEPT !.can_pause = <<value = Yes>>]
      [] key = <<"M","I","N","-","B","U","F","F","E","R","-","T","I","M","E">> ->
            IF IsSome(ParseF32(value))
            THEN [acc EXCEPT !.min_buffer_time = ParseF32(value)]
            ELSE acc
      [] key = <<"C","A","N","-","B","L","O","C","K","-","R","E","L","O","A","D">> -> [acc EXCEPT !.can_block_reload = <<value = Yes>>]
      [] key = <<"P","A","R","T","-","H","O","L","D","-","B","A","C","K">> ->
            IF IsSome(ParseF32(value))
            THEN [acc EXCEPT !.part_hold_back = ParseF32(value)]
            ELSE acc
      [] key = <<"C","A","N","-","S","K","I","P","-","U","N","T","I","L">> ->
            IF IsSome(ParseF32(value))
            THEN [acc EXCEPT !.can_skip_until = ParseF32(value)]
            ELSE acc
      [] OTHER -> acc

RECURSIVE ServerControlLoop(_, _, _)
ServerControlLoop(ms, t, acc) ==
    IF Len(ms) = 0 THEN acc
    ELSE ServerControlLoop(Tail(ms), t,
             ServerControlAttr(acc, Str(ms[1], t, 1), Str(ms[1], t, 2)))

\* the end of the EXT-X-SERVER-CONTROL block: the tag, if one attribute was
\* set
ServerControlTag(a) ==
    IF IsSome(a.can_play) \/ IsSome(a.can_seek) \/ IsSome(a.can_pause)
       \/ IsSome(a.min_buffer_time) \/ IsSome(a.can_block_reload)
       \/ IsSome(a.part_hold_back) \/ IsSome(a.can_skip_until)
    THEN Return(OkSome([tag |-> "ExtXServerControl", ExtXServerControl |-> a]))
    ELSE Fall

BrServerControl(t) ==
    IF ~StartsWith(t, <<"E","X","T","-","X","-","S","E","R","V","E","R","-","C","O","N","T","R","O","L">>) THEN Fall
    ELSE ServerControlTag(
             ServerControlLoop(
                 CapturesIter(server_control_attr_re, 2, t, 1), t,
                 ExtXServerControl(<<>>, <<>>, <<>>, <<>>, <<>>, <<>>,
                                   <<>>).ExtXServerControl))

skip_attr_re ==
    Group(1, <<Plus(UpperDash)>>) \o Lit(<<"=">>)
    \o Group(2, Either(Lit(<<"\"">>) \o Group(3, <<Star(NotQuote)>>) \o Lit(<<"\"">>),
                       Group(4, <<Plus(NotComma)>>)))

\* the `match key` of the EXT-X-SKIP block, for one key=value pair
SkipAttr(acc, key, value) ==
    CASE key = <<"S","K","I","P","P","E","D","-","S","E","G","M","E","N","T","S">> -> [acc EXCEPT !.skipped_segments = ParseU32(value)]
      [] key = <<"R","E","C","E","N","T","L","Y","-","R","E","M","O","V","E","D","-","D","A","T","E","R","A","N","G","E","S">> ->
            [acc EXCEPT !.recently_removed_dateranges = <<value>>]
      [] OTHER -> acc

RECURSIVE SkipLoop(_, _, _)
SkipLoop(ms, t, acc) ==
    IF Len(ms) = 0 THEN acc
    ELSE SkipLoop(Tail(ms), t,
             SkipAttr(acc, Str(ms[1], t, 1),
                      IF IsSome(Get(ms[1], t, 3)) THEN Str(ms[1], t, 3)
                      ELSE Str(ms[1], t, 4)))

BrSkip(t) ==
    IF ~StartsWith(t, <<"E","X","T","-","X","-","S","K","I","P">>) THEN Fall
    ELSE LET a == SkipLoop(CapturesIter(skip_attr_re, 4, t, 1), t,
                           ExtXSkip(<<>>, <<>>).ExtXSkip)
         IN  IF IsSome(a.skipped_segments)
             THEN Return(OkSome(ExtXSkip(a.skipped_segments[1],
                                         a.recently_removed_dateranges)))
             ELSE Fall

start_re ==
    Lit(<<"E","X","T","-","X","-","S","T","A","R","T",":","T","I","M","E","-","O","F","F","S","E","T","=">>) \o Group(1, <<Plus(DigitDot)>>)
    \o Lit(<<",","P","R","E","C","I","S","E","=">>) \o Group(2, <<Plus(Word)>>)

BrStart(t) ==
    IF ~StartsWith(t, <<"E","X","T","-","X","-","S","T","A","R","T">>) THEN Fall
    ELSE LET c == Captures(start_re, 2, t)
         IN  IF Len(c) = 0 THEN Fall
             ELSE Return(OkSome(ExtXStart(Str(c[1], t, 1),
                                          <<Str(c[1], t, 2) = Yes>>)))

BrIndependentSegments(t) ==
    IF StartsWith(t, <<"E","X","T","-","X","-","I","N","D","E","P","E","N","D","E","N","T","-","S","E","G","M","E","N","T","S">>)
    THEN Return(OkSome(ExtXIndependentSegments))
    ELSE Fall

stream_inf_re ==
    Lit(<<"E","X","T","-","X","-","S","T","R","E","A","M","-","I","N","F",":","B","A","N","D","W","I","D","T","H","=">>) \o Group(1, <<Plus(Digit)>>)
    \o Lit(<<",","R","E","S","O","L","U","T","I","O","N","=">>) \o Group(2, <<Plus(NotComma)>>)
    \o Lit(<<",","C","O","D","E","C","S","=","\"">>) \o Group(3, <<Plus(NotQuote)>>) \o Lit(<<"\"">>)
    \o <<Star(Space)>> \o Group(4, <<Plus(NonSpace)>>)

BrStreamInf(t) ==
    IF ~StartsWith(t, <<"E","X","T","-","X","-","S","T","R","E","A","M","-","I","N","F">>) THEN Fall
    ELSE LET c == Captures(stream_inf_re, 4, t)
         IN  IF Len(c) = 0 THEN Fall
             ELSE LET bandwidth == ParseTagInt(Str(c[1], t, 1))
                  IN  IF IsSome(bandwidth)
                      THEN Return(OkSome(ExtXStreamInf(bandwidth[1],
                               <<Str(c[1], t, 2)>>, <<Str(c[1], t, 3)>>,
                               <<>>, <<>>, <<>>, <<>>, <<>>)))
                      ELSE Return(Panic)

YesOrNo == Either(Lit(<<"Y","E","S">>), Lit(<<"N","O">>))

media_re ==
    Lit(<<"E","X","T","-","X","-","M","E","D","I","A",":","T","Y","P","E","=">>) \o Group(1, <<Plus(Word)>>)
    \o Lit(<<",","G","R","O","U","P","-","I","D","=","\"">>) \o Group(2, <<Plus(NotQuote)>>) \o Lit(<<"\"",",">>)
    \o Optional(Lit(<<"N","A","M","E","=","\"">>) \o Group(3, <<Plus(NotQuote)>>) \o Lit(<<"\"">>))
    \o Lit(<<",">>)
    \o Optional(Lit(<<"L","A","N","G","U","A","G","E","=","\"">>) \o Group(4, <<Plus(NotQuote)>>) \o Lit(<<"\"">>))
    \o Lit(<<",">>)
    \o Optional(Lit(<<"D","E","F","A","U","L","T","=">>) \o Group(5, YesOrNo))
    \o Lit(<<",">>)
    \o Optional(Lit(<<"A","U","T","O","S","E","L","E","C","T","=">>) \o Group(6, YesOrNo))
    \o Lit(<<",">>)
    \o Optional(Lit(<<"U","R","I","=","\"">>) \o Group(7, <<Plus(NotQuote)>>) \o Lit(<<"\"">>))
    \o Lit(<<",">>)
    \o Optional(Lit(<<"C","H","A","R","A","C","T","E","R","I","S","T","I","C","S","=">>) \o Group(8, <<Plus(NotComma)>>))
    \o Lit(<<",">>)
    \o Optional(Lit(<<"L","A","N","G","U","A","G","E","-","C","O","D","E","C","=","\"">>) \o Group(9, <<Plus(NotQuote)>>)
                \o Lit(<<"\"">>))
    \o Lit(<<",">>)
    \o Optional(Lit(<<"I","N","S","T","R","E","A","M","-","I","D","=","\"">>) \o Group(10, <<Plus(NotQuote)>>)
                \o Lit(<<"\"">>))
    \o Lit(<<",">>)
    \o Optional(Lit(<<"F","O","R","C","E","D","=">>) \o Group(11, YesOrNo))

BrMedia(t) ==
    IF ~StartsWith(t, <<"E","X","T","-","X","-","M","E","D","I","A">>) THEN Fall
    ELSE LET c == Captures(media_re, 11, t)
         IN  IF Len(c) = 0 THEN Fall
             ELSE LET m == c[1]
                  IN  IF \E g \in 3..11 : ~IsSome(Get(m, t, g))
                      THEN Return(Panic)
                      ELSE Return(OkSome(ExtXMedia(
                               Str(m, t, 1), Str(m, t, 2), <<Str(m, t, 3)>>,
                               <<Str(m, t, 4)>>, <<Str(m, t, 8)>>,
                               <<Str(m, t, 9)>>, <<Str(m, t, 5) = Yes>>,
                               <<Str(m, t, 6) = Yes>>, <<Str(m, t, 10)>>,
                               <<Str(m, t, 7)>>, <<Str(m, t, 11) = Yes>>)))

rendition_report_re ==
    Lit(<<"E","X","T","-","X","-","R","E","N","D","I","T","I","O","N","-","R","E","P","O","R","T",":","U","R","I","=","\"">>) \o Group(1, <<Plus(NotQuote)>>)
    \o Lit(<<"\"",",","B","A","N","D","W","I","D","T","H","=">>) \o Group(2, <<Plus(Digit)>>)

BrRenditionReport(t) ==
    IF ~StartsWith(t, <<"E","X","T","-","X","-","R","E","N","D","I","T","I","O","N","-","R","E","P","O","R","T">>) THEN Fall
    ELSE LET c == Captures(rendition_report_re, 2, t)
         IN  IF Len(c) = 0 THEN Fall
             ELSE LET bandwidth == ParseTagInt(Str(c[1], t, 2))
                  IN  IF IsSome(bandwidth)
                      THEN Return(OkSome(ExtXRenditionReport(Str(c[1], t, 1),
                                                            bandwidth[1])))
                      ELSE Return(Panic)

byte_range_re == Lit(<<"E","X","T","-","X","-","B","Y","T","E","R","A","N","G","E",":">>) \o Group(1, <<Plus(NonSpace)>>)

BrByteRange(t) ==
    IF ~StartsWith(t, <<"E","X","T","-","X","-","B","Y","T","E","R","A","N","G","E">>) THEN Fall
    ELSE LET c == Captures(byte_range_re, 1, t)
         IN  IF Len(c) = 0 THEN Fall
             ELSE Return(OkSome(ExtXByteRange(Str(c[1], t, 1))))

iframe_re ==
    Lit(<<"E","X","T","-","X","-","I","-","F","R","A","M","E","-","S","T","R","E","A","M","-","I","N","F",":","B","A","N","D","W","I","D","T","H","=">>) \o Group(1, <<Plus(Digit)>>)
    \o Lit(<<",","U","R","I","=","\"">>) \o Group(2, <<Plus(NotQuote)>>) \o Lit(<<"\"">>)

BrIFrameStreamInf(t) ==
    IF ~StartsWith(t, <<"E","X","T","-","X","-","I","-","F","R","A","M","E","-","S","T","R","E","A","M","-","I","N","F">>) THEN Fall
    ELSE LET c == Captures(iframe_re, 2, t)
         IN  IF Len(c) = 0 THEN Fall
             ELSE LET bandwidth == ParseTagInt(Str(c[1], t, 1))
                  IN  IF IsSome(bandwidth)
                      THEN Return(OkSome(ExtXIFrameStreamInf(bandwidth[1], <<>>,
                               <<>>, <<>>, Str(c[1], t, 2))))
                      ELSE Return(Panic)

session_data_re ==
    Lit(<<"E","X","T","-","X","-","S","E","S","S","I","O","N","-","D","A","T","A",":","I","D","=","\"">>) \o Group(1, <<Plus(NotQuote)>>)
    \o Lit(<<"\"",",","V","A","L","U","E","=","\"">>) \o Group(2, <<Plus(NotQuote)>>)
    \o Lit(<<"\"",",","L","A","N","G","U","A","G","E","=","\"">>) \o Group(3, <<Plus(NotQuote)>>) \o Lit(<<"\"">>)

BrSessionData(t) ==
    IF ~StartsWith(t, <<"E","X","T","-","X","-","S","E","S","S","I","O","N","-","D","A","T","A">>) THEN Fall
    ELSE LET c == Captures(session_data_re, 3, t)
         IN  IF Len(c) = 0 THEN Fall
             ELSE Return(OkSome(ExtXSessionData(Str(c[1], t, 1), Str(c[1], t, 2),
                                                <<Str(c[1], t, 3)>>)))

preload_hint_re ==
    Lit(<<"E","X","T","-","X","-","P","R","E","L","O","A","D","-","H","I","N","T",":","U","R","I","=","\"">>) \o Group(1, <<Plus(NotQuote)>>)
    \o Lit(<<"\"",",","B","Y","T","E","R","A","N","G","E","=","\"">>) \o Group(2, <<Plus(NotQuote)>>) \o Lit(<<"\"">>)

BrPreloadHint(t) ==
    IF ~StartsWith(t, <<"E","X","T","-","X","-","P","R","E","L","O","A","D","-","H","I","N","T">>) THEN Fall
    ELSE LET c == Captures(preload_hint_re, 2, t)
         IN  IF Len(c) = 0 THEN Fall
             ELSE Return(OkSome(ExtXPreloadHint(<<>>, Str(c[1], t, 1),
                                                <<Str(c[1], t, 2)>>)))

extinf_re ==
    Lit(<<"E","X","T","I","N","F",":">>)
    \o Group(1, <<Plus(Digit)>> \o Optional(Group(2, Lit(<<".">>) \o <<Plus(Digit)>>)))
    \o <<Maybe({","}), Star(Space)>> \o Group(3, <<LazyStar(Dot)>>)
    \o <<Maybe({","}), Star(Space)>> \o Group(4, <<Plus(NonSpace)>>)

BrExtInf(t) ==
    IF ~StartsWith(t, <<"E","X","T","I","N","F">>) THEN Fall
    ELSE LET c == Captures(extinf_re, 4, t)
         IN  IF Len(c) = 0 THEN Fall
             ELSE LET duration == ParseF32(Str(c[1], t, 1))
                      title == IF IsSome(Get(c[1], t, 3))
                               THEN Trim(Str(c[1], t, 3))
                               ELSE <<>>
                      segment == Trim(Str(c[1], t, 4))
                  IN  IF ~IsSome(duration) THEN Return(Panic)
                      ELSE IF title = <<>>
                      THEN Return(OkSome(ExtInf(segment, duration[1], <<>>)))
                      ELSE Return(OkSome(ExtInf(segment, duration[1], <<title>>)))

session_key_re ==
    Lit(<<"E","X","T","-","X","-","S","E","S","S","I","O","N","-","K","E","Y",":","M","E","T","H","O","D","=">>) \o Group(1, <<Plus(NotComma)>>)
    \o Lit(<<",","U","R","I","=","\"">>) \o Group(2, <<Plus(NotQuote)>>)
    \o Lit(<<"\"",",","I","V","=","\"">>) \o Group(3, <<Plus(NotQuote)>>) \o Lit(<<"\"">>)

BrSessionKey(t) ==
    IF ~StartsWith(t, <<"E","X","T","-","X","-","S","E","S","S","I","O","N","-","K","E","Y">>) THEN Fall
    ELSE LET c == Captures(session_key_re, 3, t)
         IN  IF Len(c) = 0 THEN Fall
             ELSE Return(OkSome(ExtXSessionKey(Str(c[1], t, 1),
                               <<Str(c[1], t, 2)>>, <<Str(c[1], t, 3)>>)))

\* the result of the first block that returns, Ok(None) when none does
FirstReturn(blocks) ==
    LET ret == {i \in 1..Len(blocks) : Len(blocks[i]) > 0}
    IN  IF ret = {} THEN OkNone
        ELSE blocks[CHOOSE i \in ret : \A j \in ret : i <= j][1]

\* Playlist::parse_line: Ok(Some(tag)), Ok(None) or a panic
parse_line(line) ==
    LET trimmed == Trim(line)
    IN  FirstReturn(<<
            BrExtM3U(trimmed), BrVersion(trimmed), BrTargetDuration(trimmed),
            BrPlaylistType(trimmed), BrMediaSequence(trimmed),
            BrDiscontinuitySequence(trimmed), BrEndList(trimmed), BrKey(trimmed),
            BrMap(trimmed), BrProgramDateTime(trimmed), BrDiscontinuity(trimmed),
            BrPart(trimmed), BrPartInf(trimmed), BrServerControl(trimmed),
            BrSkip(trimmed), BrStart(trimmed), BrIndependentSegments(trimmed),
            BrStreamInf(trimmed), BrMedia(trimmed), BrRenditionReport(trimmed),
            BrByteRange(trimmed), BrIFrameStreamInf(trimmed),
            BrSessionData(trimmed), BrPreloadHint(trimmed), BrExtInf(trimmed),
            BrSessionKey(trimmed)>>)

(***************************************************************************)
(* from_reader, validate, validate_tag.                                    *)
(***************************************************************************)
\* one turn of the loop of from_reader on the result r of parse_line: the
\* tag is pushed; a panic ends the call
Push(acc, r) ==
    IF acc.kind = "panic" \/ r = Panic THEN [kind |-> "panic"]
    ELSE IF r.kind = "some" THEN [acc EXCEPT !.tags = Append(@, r.tag)]
    ELSE acc

\* the loop `for line in content.split("#")` from piece i on
RECURSIVE ReadLines(_, _, _)
ReadLines(ps, i, acc) ==
    IF i > Len(ps) THEN acc
    ELSE IF Len(ps[i]) = 0 THEN ReadLines(ps, i + 1, acc)
    ELSE ReadLines(ps, i + 1, Push(acc, parse_line(ps[i])))

\* Playlist::from_reader on the text the reader gives: Ok(Playlist { tags })
\* or the panic of a parse_line call
from_reader(content) ==
    ReadLines(Split(content, "#"), 1, [kind |-> "ok", tags |-> <<>>])

\* ValidationError
MissingExtM3U == [err |-> "MissingExtM3U"]

InvalidVersion(v) == [err |-> "InvalidVersion", InvalidVersion |-> v]

InvalidDuration(d) == [err |-> "InvalidDuration", InvalidDuration |-> d]

InvalidTargetDuration(v) == [err |-> "InvalidTargetDuration", InvalidTargetDuration |-> v]

InvalidKeyMethod(m) == [err |-> "InvalidKeyMethod", InvalidKeyMethod |-> m]

InvalidMapUri == [err |-> "InvalidMapUri"]

InvalidProgramDateTime == [err |-> "InvalidProgramDateTime"]

InvalidBitrate(b) == [err |-> "InvalidBitrate", InvalidBitrate |-> b]

InvalidStartOffset == [err |-> "InvalidStartOffset"]

InvalidSkipTag(msg) == [err |-> "InvalidSkipTag", InvalidSkipTag |-> msg]

InvalidPreloadHintUri == [err |-> "InvalidPreloadHintUri"]

InvalidRenditionReportUri == [err |-> "InvalidRenditionReportUri"]

\* a bitrate (a signed integer): its sign and the numeral of its magnitude
Signed(neg, mag) == [neg |-> neg, mag |-> mag]

\* the methods, had validate_tag let every method of four letters pass
KeyMethodsLax == {<<"N","O","N","E">>, <<"A","E","S","-","1","2","8">>, <<"S","A","M","P","L","E","-","A","E","S">>, <<"F","A","K","E">>}

KeyMethods == {<<"N","O","N","E">>, <<"A","E","S","-","1","2","8">>, <<"S","A","M","P","L","E","-","A","E","S">>}

\* Playlist::validate_tag: the errors it pushes for one tag
validate_tag(tag) ==
    CASE tag.tag = "ExtXVersion" ->
            IF NumLess(tag.ExtXVersion, <<"1">>) \/ NumLess(<<"7">>, tag.ExtXVersion)
            THEN <<InvalidVersion(tag.ExtXVersion)>> ELSE <<>>
      [] tag.tag = "ExtInf" /\ F32LeqZero(tag.ExtInf.duration) ->
            <<InvalidDuration(tag.ExtInf.duration)>>
      [] tag.tag = "ExtXTargetDuration" /\ tag.ExtXTargetDuration = <<"0">> ->
            <<InvalidTargetDuration(tag.ExtXTargetDuration)>>
      [] tag.tag = "ExtXKey" /\ ~(tag.ExtXKey.method \in KeyMethods) ->
            <<InvalidKeyMethod(tag.ExtXKey.method)>>
      [] tag.tag = "ExtXMap" /\ Len(tag.ExtXMap.uri) = 0 -> <<InvalidMapUri>>
      [] tag.tag = "ExtXProgramDateTime" /\ Len(tag.ExtXProgramDateTime) = 0 ->
            <<InvalidProgramDateTime>>
      [] tag.tag = "ExtXGap" -> <<>>
      [] tag.tag = "ExtXBitrate" /\ tag.ExtXBitrate.neg /\ tag.ExtXBitrate.mag # <<"0">> ->
            <<InvalidBitrate(tag.ExtXBitrate)>>
      [] tag.tag = "ExtXIndependentSegments" -> <<>>
      [] tag.tag = "ExtXStart" /\ Len(tag.ExtXStart.time_offset) = 0 -> <<InvalidStartOffset>>
      [] tag.tag = "ExtXSkip" /\ tag.ExtXSkip.skipped_segments = <<"0">> ->
            <<InvalidSkipTag(<<"S","K","I","P","P","E","D","-","S","E","G","M","E","N","T","S"," ","m","u","s","t"," ","b","e"," ","p","o","s","i","t","i","v","e">>)>>
      [] tag.tag = "ExtXPreloadHint" /\ Len(tag.ExtXPreloadHint.uri) = 0 -> <<InvalidPreloadHintUri>>
      [] tag.tag = "ExtXRenditionReport" /\ Len(tag.ExtXRenditionReport.uri) = 0 ->
            <<InvalidRenditionReportUri>>
      [] tag.tag = "ExtXServerControl" -> <<>>
      [] OTHER -> <<>>

\* the errors of the loop from tag i on, had it stopped at the first tag
\* that breaks a rule
RECURSIVE TagErrorsFirst(_, _)
TagErrorsFirst(ts, i) ==
    IF i > Len(ts) THEN <<>>
    ELSE IF Len(validate_tag(ts[i])) > 0 THEN validate_tag(ts[i])
    ELSE TagErrorsFirst(ts, i + 1)

\* the errors of the loop `for tag in &self.tags` from tag i on
RECURSIVE TagErrors(_, _)
TagErrors(ts, i) ==
    IF i > Len(ts) THEN <<>> ELSE validate_tag(ts[i]) \o TagErrors(ts, i + 1)

\* the errors vector, had validate looked for ExtM3U in the first tag only
ValidateErrorsFirstTag(ts) ==
    (IF ~(Len(ts) > 0 /\ ts[1] = ExtM3U) THEN <<MissingExtM3U>> ELSE <<>>)
    \o TagErrors(ts, 1)

\* the errors vector of Playlist::validate
ValidateErrors(ts) ==
    (IF ~(\E i \in 1..Len(ts) : ts[i] = ExtM3U) THEN <<MissingExtM3U>> ELSE <<>>)
    \o TagErrors(ts, 1)

\* Playlist::validate: Ok(()) or Err(errors)
validate(ts) ==
    LET errors == ValidateErrors(ts)
    IN  IF Len(errors) = 0 THEN [kind |-> "ok"]
        ELSE [kind |-> "err", errors |-> errors]

(***************************************************************************)
(* Display for Tag (crate::m3u8::tags), which write_to_file prints with    *)
(* "{}".  The canonical line of each directive: the attributes that are    *)
(* present, in a fixed order, the texts quoted, as in the example lines    *)
(* that parse_line documents.                                              *)
(***************************************************************************)
RenderF32(x) ==
    (IF x.neg THEN <<"-">> ELSE <<>>)
    \o (IF Len(x.ip) = 0 THEN <<"0">> ELSE x.ip)
    \o (IF Len(x.fp) = 0 THEN <<>> ELSE <<".">> \o x.fp)

RenderSigned(x) == (IF x.neg THEN <<"-">> ELSE <<>>) \o x.mag

RenderBool(b) == IF b THEN <<"Y","E","S">> ELSE <<"N","O">>

\* KEY=value, KEY="value", or nothing for an attribute that is absent
Plain(k, o) == IF Len(o) = 0 THEN <<>> ELSE <<k \o <<"=">> \o o[1]>>

Quoted(k, o) == IF Len(o) = 0 THEN <<>> ELSE <<k \o <<"=","\"">> \o o[1] \o <<"\"">>>>

Float(k, o) == IF Len(o) = 0 THEN <<>> ELSE <<k \o <<"=">> \o RenderF32(o[1])>>

Bool(k, o) == IF Len(o) = 0 THEN <<>> ELSE <<k \o <<"=">> \o RenderBool(o[1])>>

\* the attributes that are present, separated by commas
RECURSIVE Join(_)
Join(as) ==
    IF Len(as) = 0 THEN <<>>
    ELSE IF Len(as) = 1 THEN as[1]
    ELSE as[1] \o <<",">> \o Join(Tail(as))

Render(t) ==
    CASE t.tag = "ExtM3U" -> <<"#","E","X","T","M","3","U">>
      [] t.tag = "ExtXVersion" -> <<"#","E","X","T","-","X","-","V","E","R","S","I","O","N",":">> \o t.ExtXVersion
      [] t.tag = "ExtXTargetDuration" -> <<"#","E","X","T","-","X","-","T","A","R","G","E","T","D","U","R","A","T","I","O","N",":">> \o t.ExtXTargetDuration
      [] t.tag = "ExtXPlaylistType" -> <<"#","E","X","T","-","X","-","P","L","A","Y","L","I","S","T","-","T","Y","P","E",":">> \o t.ExtXPlaylistType
      [] t.tag = "ExtXMediaSequence" -> <<"#","E","X","T","-","X","-","M","E","D","I","A","-","S","E","Q","U","E","N","C","E",":">> \o t.ExtXMediaSequence
      [] t.tag = "ExtXDiscontinuitySequence" ->
            <<"#","E","X","T","-","X","-","D","I","S","C","O","N","T","I","N","U","I","T","Y","-","S","E","Q","U","E","N","C","E",":">> \o t.ExtXDiscontinuitySequence
      [] t.tag = "ExtXEndList" -> <<"#","E","X","T","-","X","-","E","N","D","L","I","S","T">>
      [] t.tag = "ExtXKey" ->
            <<"#","E","X","T","-","X","-","K","E","Y",":">>
            \o Join(Plain(<<"M","E","T","H","O","D">>, <<t.ExtXKey.method>>) \o Quoted(<<"U","R","I">>, t.ExtXKey.uri)
                    \o Quoted(<<"I","V">>, t.ExtXKey.iv) \o Quoted(<<"K","E","Y","F","O","R","M","A","T">>, t.ExtXKey.keyformat)
                    \o Quoted(<<"K","E","Y","F","O","R","M","A","T","V","E","R","S","I","O","N","S">>, t.ExtXKey.keyformatversions))
      [] t.tag = "ExtXMap" ->
            <<"#","E","X","T","-","X","-","M","A","P",":">>
            \o Join(Quoted(<<"U","R","I">>, <<t.ExtXMap.uri>>) \o Quoted(<<"B","Y","T","E","R","A","N","G","E">>, t.ExtXMap.byterange))
      [] t.tag = "ExtXProgramDateTime" -> <<"#","E","X","T","-","X","-","P","R","O","G","R","A","M","-","D","A","T","E","-","T","I","M","E",":">> \o t.ExtXProgramDateTime
      [] t.tag = "ExtXDiscontinuity" -> <<"#","E","X","T","-","X","-","D","I","S","C","O","N","T","I","N","U","I","T","Y">>
      [] t.tag = "ExtXPart" ->
            <<"#","E","X","T","-","X","-","P","A","R","T",":">>
            \o Join(Quoted(<<"U","R","I">>, <<t.ExtXPart.uri>>) \o Float(<<"D","U","R","A","T","I","O","N">>, t.ExtXPart.duration)
                    \o Bool(<<"I","N","D","E","P","E","N","D","E","N","T">>, t.ExtXPart.independent))
      [] t.tag = "ExtXPartInf" ->
            <<"#","E","X","T","-","X","-","P","A","R","T","-","I","N","F",":">>
            \o Join(Float(<<"P","A","R","T","-","T","A","R","G","E","T">>, <<t.ExtXPartInf.part_target_duration>>)
                    \o Plain(<<"P","A","R","T","-","N","U","M","B","E","R">>, t.ExtXPartInf.part_number))
      [] t.tag = "ExtXServerControl" ->
            <<"#","E","X","T","-","X","-","S","E","R","V","E","R","-","C","O","N","T","R","O","L",":">>
            \o Join(Bool(<<"C","A","N","-","P","L","A","Y">>, t.ExtXServerControl.can_play) \o Bool(<<"C","A","N","-","S","E","E","K">>, t.ExtXServerControl.can_seek)
                    \o Bool(<<"C","A","N","-","P","A","U","S","E">>, t.ExtXServerControl.can_pause)
                    \o Float(<<"M","I","N","-","B","U","F","F","E","R","-","T","I","M","E">>, t.ExtXServerControl.min_buffer_time)
                    \o Bool(<<"C","A","N","-","B","L","O","C","K","-","R","E","L","O","A","D">>, t.ExtXServerControl.can_block_reload)
                    \o Float(<<"P","A","R","T","-","H","O","L","D","-","B","A","C","K">>, t.ExtXServerControl.part_hold_back)
                    \o Float(<<"C","A","N","-","S","K","I","P","-","U","N","T","I","L">>, t.ExtXServerControl.can_skip_until))
      [] t.tag = "ExtXSkip" ->
            <<"#","E","X","T","-","X","-","S","K","I","P",":">>
            \o Join(Plain(<<"S","K","I","P","P","E","D","-","S","E","G","M","E","N","T","S">>, <<t.ExtXSkip.skipped_segments>>)
                    \o Quoted(<<"R","E","C","E","N","T","L","Y","-","R","E","M","O","V","E","D","-","D","A","T","E","R","A","N","G","E","S">>,
                              t.ExtXSkip.recently_removed_dateranges))
      [] t.tag = "ExtXStart" ->
            <<"#","E","X","T","-","X","-","S","T","A","R","T",":">>
            \o Join(Plain(<<"T","I","M","E","-","O","F","F","S","E","T">>, <<t.ExtXStart.time_offset>>)
                    \o Bool(<<"P","R","E","C","I","S","E">>, t.ExtXStart.precise))
      [] t.tag = "ExtXIndependentSegments" -> <<"#","E","X","T","-","X","-","I","N","D","E","P","E","N","D","E","N","T","-","S","E","G","M","E","N","T","S">>
      [] t.tag = "ExtXStreamInf" ->
            <<"#","E","X","T","-","X","-","S","T","R","E","A","M","-","I","N","F",":">>
            \o Join(Plain(<<"B","A","N","D","W","I","D","T","H">>, <<t.ExtXStreamInf.bandwidth>>)
                    \o Plain(<<"R","E","S","O","L","U","T","I","O","N">>, t.ExtXStreamInf.resolution)
                    \o Quoted(<<"C","O","D","E","C","S">>, t.ExtXStreamInf.codecs)
                    \o Float(<<"F","R","A","M","E","-","R","A","T","E">>, t.ExtXStreamInf.frame_rate)
                    \o Quoted(<<"A","U","D","I","O">>, t.ExtXStreamInf.audio) \o Quoted(<<"V","I","D","E","O">>, t.ExtXStreamInf.video)
                    \o Quoted(<<"S","U","B","T","I","T","L","E","S">>, t.ExtXStreamInf.subtitle)
                    \o Quoted(<<"C","L","O","S","E","D","-","C","A","P","T","I","O","N","S">>, t.ExtXStreamInf.closed_captions))
      [] t.tag = "ExtXMedia" ->
            <<"#","E","X","T","-","X","-","M","E","D","I","A",":">>
            \o Join(Plain(<<"T","Y","P","E">>, <<t.ExtXMedia.type_>>) \o Quoted(<<"G","R","O","U","P","-","I","D">>, <<t.ExtXMedia.group_id>>)
                    \o Quoted(<<"N","A","M","E">>, t.ExtXMedia.name) \o Quoted(<<"L","A","N","G","U","A","G","E">>, t.ExtXMedia.language)
                    \o Bool(<<"D","E","F","A","U","L","T">>, t.ExtXMedia.default) \o Bool(<<"A","U","T","O","S","E","L","E","C","T">>, t.ExtXMedia.autoplay)
                    \o Quoted(<<"U","R","I">>, t.ExtXMedia.uri)
                    \o Quoted(<<"C","H","A","R","A","C","T","E","R","I","S","T","I","C","S">>, t.ExtXMedia.characteristics)
                    \o Quoted(<<"L","A","N","G","U","A","G","E","-","C","O","D","E","C">>, t.ExtXMedia.language_codec)
                    \o Quoted(<<"I","N","S","T","R","E","A","M","-","I","D">>, t.ExtXMedia.instream_id)
                    \o Bool(<<"F","O","R","C","E","D">>, t.ExtXMedia.forced))
      [] t.tag = "ExtXRenditionReport" ->
            <<"#","E","X","T","-","X","-","R","E","N","D","I","T","I","O","N","-","R","E","P","O","R","T",":">>
            \o Join(Quoted(<<"U","R","I">>, <<t.ExtXRenditionReport.uri>>) \o Plain(<<"B","A","N","D","W","I","D","T","H">>, <<t.ExtXRenditionReport.bandwidth>>))
      [] t.tag = "ExtXByteRange" -> <<"#","E","X","T","-","X","-","B","Y","T","E","R","A","N","G","E",":">> \o t.ExtXByteRange
      [] t.tag = "ExtXIFrameStreamInf" ->
            <<"#","E","X","T","-","X","-","I","-","F","R","A","M","E","-","S","T","R","E","A","M","-","I","N","F",":">>
            \o Join(Plain(<<"B","A","N","D","W","I","D","T","H">>, <<t.ExtXIFrameStreamInf.bandwidth>>)
                    \o Quoted(<<"C","O","D","E","C","S">>, t.ExtXIFrameStreamInf.codecs)
                    \o Plain(<<"R","E","S","O","L","U","T","I","O","N">>, t.ExtXIFrameStreamInf.resolution)
                    \o Float(<<"F","R","A","M","E","-","R","A","T","E">>, t.ExtXIFrameStreamInf.frame_rate)
                    \o Quoted(<<"U","R","I">>, <<t.ExtXIFrameStreamInf.uri>>))
      [] t.tag = "ExtXSessionData" ->
            <<"#","E","X","T","-","X","-","S","E","S","S","I","O","N","-","D","A","T","A",":">>
            \o Join(Quoted(<<"I","D">>, <<t.ExtXSessionData.id>>) \o Quoted(<<"V","A","L","U","E">>, <<t.ExtXSessionData.value>>)
                    \o Quoted(<<"L","A","N","G","U","A","G","E">>, t.ExtXSessionData.language))
      [] t.tag = "ExtXPreloadHint" ->
            <<"#","E","X","T","-","X","-","P","R","E","L","O","A","D","-","H","I","N","T",":">>
            \o Join(Plain(<<"T","Y","P","E">>, t.ExtXPreloadHint.type_) \o Quoted(<<"U","R","I">>, <<t.ExtXPreloadHint.uri>>)
                    \o Quoted(<<"B","Y","T","E","R","A","N","G","E">>, t.ExtXPreloadHint.byterange))
      [] t.tag = "ExtInf" ->
            <<"#","E","X","T","I","N","F",":">> \o RenderF32(t.ExtInf.duration) \o <<",">>
            \o (IF Len(t.ExtInf.title) = 0 THEN <<>> ELSE t.ExtInf.title[1]) \o <<"\n">> \o t.ExtInf.uri
      [] t.tag = "ExtXSessionKey" ->
            <<"#","E","X","T","-","X","-","S","E","S","S","I","O","N","-","K","E","Y",":">>
            \o Join(Plain(<<"M","E","T","H","O","D">>, <<t.ExtXSessionKey.method>>) \o Quoted(<<"U","R","I">>, t.ExtXSessionKey.uri)
                    \o Quoted(<<"I","V">>, t.ExtXSessionKey.iv))
      [] t.tag = "ExtXGap" -> <<"#","E","X","T","-","X","-","G","A","P">>
      [] t.tag = "ExtXBitrate" -> <<"#","E","X","T","-","X","-","B","I","T","R","A","T","E",":">> \o RenderSigned(t.ExtXBitrate)

\* the text Playlist::write_to_file writes: writeln!(file, "{}", tag) for
\* every tag
RECURSIVE WriteTags(_, _)
WriteTags(ts, i) ==
    IF i > Len(ts) THEN <<>>
    ELSE Render(ts[i]) \o <<"\n">> \o WriteTags(ts, i + 1)

write_to_file(ts) == WriteTags(ts, 1)

(***************************************************************************)
(* The texts given to from_reader.  A text is written down as a document:  *)
(* a sequence of lines, each a directive head, its comma-separated         *)
(* attributes and, for the directives that have one, the line that follows *)
(* (the URI).                                                              *)
(***************************************************************************)
\* a positional value, KEY=value, KEY="value"
V(v) == [k |-> <<>>, v |-> v, q |-> FALSE]

P(k, v) == [k |-> k, v |-> v, q |-> FALSE]

Q(k, v) == [k |-> k, v |-> v, q |-> TRUE]

Line(head, attrs, uri) == [head |-> head, attrs |-> attrs, uri |-> uri]

AttrText(a) ==
    IF Len(a.k) = 0 THEN a.v
    ELSE IF a.q THEN a.k \o <<"=","\"">> \o a.v \o <<"\"">>
    ELSE a.k \o <<"=">> \o a.v

LineText(l) ==
    l.head \o Join([i \in 1..Len(l.attrs) |-> AttrText(l.attrs[i])]) \o <<"\n">>
    \o (IF Len(l.uri) = 0 THEN <<>> ELSE l.uri \o <<"\n">>)

RECURSIVE TextFrom(_, _)
TextFrom(doc, i) ==
    IF i > Len(doc) THEN <<>> ELSE LineText(doc[i]) \o TextFrom(doc, i + 1)

TextOf(doc) == TextFrom(doc, 1)

LM3U == Line(<<"#","E","X","T","M","3","U">>, <<>>, <<>>)

LVersion3 == Line(<<"#","E","X","T","-","X","-","V","E","R","S","I","O","N",":">>, <<V(<<"3">>)>>, <<>>)

LVersion99 == Line(<<"#","E","X","T","-","X","-","V","E","R","S","I","O","N",":">>, <<V(<<"9","9">>)>>, <<>>)

LVersionHuge ==
    Line(<<"#","E","X","T","-","X","-","V","E","R","S","I","O","N",":">>, <<V(<<"9","9","9","9","9","9","9","9","9","9","9","9","9","9","9","9","9","9","9","9","9","9","9","9","9","9","9","9","9","9","9","9","9","9","9","9","9","9","9","9">>)>>, <<>>)

LTarget10 == Line(<<"#","E","X","T","-","X","-","T","A","R","G","E","T","D","U","R","A","T","I","O","N",":">>, <<V(<<"1","0">>)>>, <<>>)

LTarget0 == Line(<<"#","E","X","T","-","X","-","T","A","R","G","E","T","D","U","R","A","T","I","O","N",":">>, <<V(<<"0">>)>>, <<>>)

LPlaylistType == Line(<<"#","E","X","T","-","X","-","P","L","A","Y","L","I","S","T","-","T","Y","P","E",":">>, <<V(<<"E","V","E","N","T">>)>>, <<>>)

LMediaSequence == Line(<<"#","E","X","T","-","X","-","M","E","D","I","A","-","S","E","Q","U","E","N","C","E",":">>, <<V(<<"0">>)>>, <<>>)

LMediaSequenceBad == Line(<<"#","E","X","T","-","X","-","M","E","D","I","A","-","S","E","Q","U","E","N","C","E",":">>, <<V(<<"x">>)>>, <<>>)

LDiscontinuitySequence == Line(<<"#","E","X","T","-","X","-","D","I","S","C","O","N","T","I","N","U","I","T","Y","-","S","E","Q","U","E","N","C","E",":">>, <<V(<<"5">>)>>, <<>>)

LDiscontinuitySequenceBad ==
    Line(<<"#","E","X","T","-","X","-","D","I","S","C","O","N","T","I","N","U","I","T","Y","-","S","E","Q","U","E","N","C","E",":">>, <<V(<<"x">>)>>, <<>>)

LDiscontinuity == Line(<<"#","E","X","T","-","X","-","D","I","S","C","O","N","T","I","N","U","I","T","Y">>, <<>>, <<>>)

LEndList == Line(<<"#","E","X","T","-","X","-","E","N","D","L","I","S","T">>, <<>>, <<>>)

LIndependentSegments == Line(<<"#","E","X","T","-","X","-","I","N","D","E","P","E","N","D","E","N","T","-","S","E","G","M","E","N","T","S">>, <<>>, <<>>)

LSegment == Line(<<"#","E","X","T","I","N","F",":">>, <<V(<<"9",".","5">>), V(<<"T","i","t","l","e">>)>>, <<"s","e","g","m","e","n","t","1",".","t","s">>)

LSegmentNoTitle == Line(<<"#","E","X","T","I","N","F",":">>, <<V(<<"1","0",".","0">>), V(<<>>)>>, <<"s","e","g",".","t","s">>)

LSegmentZero == Line(<<"#","E","X","T","I","N","F",":">>, <<V(<<"0">>), V(<<>>)>>, <<"s",".","t","s">>)

LSegmentNoUri == Line(<<"#","E","X","T","I","N","F",":">>, <<V(<<"9",".","5">>), V(<<"T","i","t","l","e">>)>>, <<>>)

LSegmentBare == Line(<<"#","E","X","T","I","N","F",":">>, <<V(<<"9",".","5">>)>>, <<>>)

LKey ==
    Line(<<"#","E","X","T","-","X","-","K","E","Y",":">>,
         <<P(<<"M","E","T","H","O","D">>, <<"A","E","S","-","1","2","8">>), Q(<<"U","R","I">>, <<"k",".","b","i","n">>), Q(<<"I","V">>, <<"0","x","1","2">>)>>,
         <<>>)

LKeyFake ==
    Line(<<"#","E","X","T","-","X","-","K","E","Y",":">>, <<P(<<"M","E","T","H","O","D">>, <<"F","A","K","E">>), Q(<<"U","R","I">>, <<"k",".","b","i","n">>)>>, <<>>)

LMap ==
    Line(<<"#","E","X","T","-","X","-","M","A","P",":">>, <<Q(<<"U","R","I">>, <<"i",".","m","p","4">>), Q(<<"B","Y","T","E","R","A","N","G","E">>, <<"8","@","0">>)>>, <<>>)

LMapPlain == Line(<<"#","E","X","T","-","X","-","M","A","P",":">>, <<Q(<<"U","R","I">>, <<"a","b">>)>>, <<>>)

LMapComma == Line(<<"#","E","X","T","-","X","-","M","A","P",":">>, <<Q(<<"U","R","I">>, <<"a",",","b">>)>>, <<>>)

LMapMarker == Line(<<"#","E","X","T","-","X","-","M","A","P",":">>, <<Q(<<"U","R","I">>, <<"a","#","b">>)>>, <<>>)

LProgramDateTime == Line(<<"#","E","X","T","-","X","-","P","R","O","G","R","A","M","-","D","A","T","E","-","T","I","M","E",":">>, <<V(<<"2","0","2","4","-","1","1","-","0","5","T","1","2",":","0","0",":","0","0","Z">>)>>, <<>>)

LPart ==
    Line(<<"#","E","X","T","-","X","-","P","A","R","T",":">>, <<Q(<<"U","R","I">>, <<"p",".","t","s">>), P(<<"D","U","R","A","T","I","O","N">>, <<"5",".","0">>)>>, <<>>)

LPartBad ==
    Line(<<"#","E","X","T","-","X","-","P","A","R","T",":">>, <<Q(<<"U","R","I">>, <<"p",".","t","s">>), P(<<"D","U","R","A","T","I","O","N">>, <<"1",".","2",".","3">>)>>, <<>>)

LPartInf == Line(<<"#","E","X","T","-","X","-","P","A","R","T","-","I","N","F",":">>, <<P(<<"P","A","R","T","-","T","A","R","G","E","T">>, <<"5",".","0">>)>>, <<>>)

LPartInfAlt == Line(<<"#","E","X","T","-","X","-","P","A","R","T","-","I","N","F",":">>, <<P(<<"P","A","R","T","-","T","A","R","G","E","T","-","D","U","R","A","T","I","O","N">>, <<"2",".","5">>)>>, <<>>)

LPartInfBad == Line(<<"#","E","X","T","-","X","-","P","A","R","T","-","I","N","F",":">>, <<P(<<"P","A","R","T","-","T","A","R","G","E","T">>, <<"1",".","2",".","3">>)>>, <<>>)

LPartInfWord == Line(<<"#","E","X","T","-","X","-","P","A","R","T","-","I","N","F",":">>, <<P(<<"P","A","R","T","-","T","A","R","G","E","T">>, <<"x">>)>>, <<>>)

LServerControl ==
    Line(<<"#","E","X","T","-","X","-","S","E","R","V","E","R","-","C","O","N","T","R","O","L",":">>,
         <<P(<<"C","A","N","-","B","L","O","C","K","-","R","E","L","O","A","D">>, <<"Y","E","S">>), P(<<"P","A","R","T","-","H","O","L","D","-","B","A","C","K">>, <<"1",".","0">>)>>, <<>>)

LSkip ==
    Line(<<"#","E","X","T","-","X","-","S","K","I","P",":">>,
         <<P(<<"S","K","I","P","P","E","D","-","S","E","G","M","E","N","T","S">>, <<"3">>),
           Q(<<"R","E","C","E","N","T","L","Y","-","R","E","M","O","V","E","D","-","D","A","T","E","R","A","N","G","E","S">>, <<"a"," ","b">>)>>, <<>>)

LSkip0 == Line(<<"#","E","X","T","-","X","-","S","K","I","P",":">>, <<P(<<"S","K","I","P","P","E","D","-","S","E","G","M","E","N","T","S">>, <<"0">>)>>, <<>>)

LSkipHuge == Line(<<"#","E","X","T","-","X","-","S","K","I","P",":">>, <<P(<<"S","K","I","P","P","E","D","-","S","E","G","M","E","N","T","S">>, <<"4","2","9","4","9","6","7","2","9","6">>)>>, <<>>)

LStart ==
    Line(<<"#","E","X","T","-","X","-","S","T","A","R","T",":">>, <<P(<<"T","I","M","E","-","O","F","F","S","E","T">>, <<"1",".","5">>), P(<<"P","R","E","C","I","S","E">>, <<"Y","E","S">>)>>,
         <<>>)

LStreamInf ==
    Line(<<"#","E","X","T","-","X","-","S","T","R","E","A","M","-","I","N","F",":">>,
         <<P(<<"B","A","N","D","W","I","D","T","H">>, <<"5","0","0">>), P(<<"R","E","S","O","L","U","T","I","O","N">>, <<"6","4","0","x","3","6","0">>),
           Q(<<"C","O","D","E","C","S">>, <<"a","v","c","1",",","m","p","4","a">>)>>, <<"v",".","m","3","u","8">>)

LMedia ==
    Line(<<"#","E","X","T","-","X","-","M","E","D","I","A",":">>,
         <<P(<<"T","Y","P","E">>, <<"A","U","D","I","O">>), Q(<<"G","R","O","U","P","-","I","D">>, <<"a">>), Q(<<"N","A","M","E">>, <<"E">>),
           Q(<<"L","A","N","G","U","A","G","E">>, <<"e","n">>), P(<<"D","E","F","A","U","L","T">>, <<"Y","E","S">>),
           P(<<"A","U","T","O","S","E","L","E","C","T">>, <<"N","O">>), Q(<<"U","R","I">>, <<"a",".","m","3","u","8">>),
           P(<<"C","H","A","R","A","C","T","E","R","I","S","T","I","C","S">>, <<"c">>), Q(<<"L","A","N","G","U","A","G","E","-","C","O","D","E","C">>, <<"l">>),
           Q(<<"I","N","S","T","R","E","A","M","-","I","D">>, <<"i">>), P(<<"F","O","R","C","E","D">>, <<"N","O">>)>>, <<>>)

\* TYPE and GROUP-ID, and every optional attribute left out between the
\* commas
LMediaBare ==
    Line(<<"#","E","X","T","-","X","-","M","E","D","I","A",":">>,
         <<P(<<"T","Y","P","E">>, <<"A","U","D","I","O">>), Q(<<"G","R","O","U","P","-","I","D">>, <<"a">>), V(<<>>), V(<<>>),
           V(<<>>), V(<<>>), V(<<>>), V(<<>>), V(<<>>), V(<<>>), V(<<>>)>>, <<>>)

LRenditionReport ==
    Line(<<"#","E","X","T","-","X","-","R","E","N","D","I","T","I","O","N","-","R","E","P","O","R","T",":">>,
         <<Q(<<"U","R","I">>, <<"r",".","m","3","u","8">>), P(<<"B","A","N","D","W","I","D","T","H">>, <<"1","0","0","0">>)>>, <<>>)

LByteRange == Line(<<"#","E","X","T","-","X","-","B","Y","T","E","R","A","N","G","E",":">>, <<V(<<"5","0","0","@","1","0","0","0">>)>>, <<>>)

LIFrameStreamInf ==
    Line(<<"#","E","X","T","-","X","-","I","-","F","R","A","M","E","-","S","T","R","E","A","M","-","I","N","F",":">>,
         <<P(<<"B","A","N","D","W","I","D","T","H">>, <<"3","0","0">>), Q(<<"U","R","I">>, <<"i",".","m","3","u","8">>)>>, <<>>)

LSessionData ==
    Line(<<"#","E","X","T","-","X","-","S","E","S","S","I","O","N","-","D","A","T","A",":">>,
         <<Q(<<"I","D">>, <<"s">>), Q(<<"V","A","L","U","E">>, <<"v">>), Q(<<"L","A","N","G","U","A","G","E">>, <<"e","n">>)>>, <<>>)

LPreloadHint ==
    Line(<<"#","E","X","T","-","X","-","P","R","E","L","O","A","D","-","H","I","N","T",":">>,
         <<Q(<<"U","R","I">>, <<"p",".","t","s">>), Q(<<"B","Y","T","E","R","A","N","G","E">>, <<"1","@","2">>)>>, <<>>)

LSessionKey ==
    Line(<<"#","E","X","T","-","X","-","S","E","S","S","I","O","N","-","K","E","Y",":">>,
         <<P(<<"M","E","T","H","O","D">>, <<"A","E","S","-","1","2","8">>), Q(<<"U","R","I">>, <<"k">>), Q(<<"I","V">>, <<"0","x","9">>)>>, <<>>)

LGap == Line(<<"#","E","X","T","-","X","-","G","A","P">>, <<>>, <<>>)

LUnknown == Line(<<"#","E","X","T","-","X","-","F","O","O",":">>, <<V(<<"1">>)>>, <<>>)

\* a line that is no directive
LStray == Line(<<"s","t","r","a","y",".","t","s">>, <<>>, <<>>)

\* directives whose value is the empty text, and the bitrate directive
LMapEmpty == Line(<<"#","E","X","T","-","X","-","M","A","P",":">>, <<Q(<<"U","R","I">>, <<>>)>>, <<>>)

LProgramDateTimeEmpty == Line(<<"#","E","X","T","-","X","-","P","R","O","G","R","A","M","-","D","A","T","E","-","T","I","M","E",":">>, <<>>, <<>>)

LStartEmpty ==
    Line(<<"#","E","X","T","-","X","-","S","T","A","R","T",":">>, <<P(<<"T","I","M","E","-","O","F","F","S","E","T">>, <<>>), P(<<"P","R","E","C","I","S","E">>, <<"Y","E","S">>)>>, <<>>)

LPreloadHintEmpty ==
    Line(<<"#","E","X","T","-","X","-","P","R","E","L","O","A","D","-","H","I","N","T",":">>, <<Q(<<"U","R","I">>, <<>>), Q(<<"B","Y","T","E","R","A","N","G","E">>, <<"1","@","2">>)>>, <<>>)

LRenditionReportEmpty ==
    Line(<<"#","E","X","T","-","X","-","R","E","N","D","I","T","I","O","N","-","R","E","P","O","R","T",":">>, <<Q(<<"U","R","I">>, <<>>), P(<<"B","A","N","D","W","I","D","T","H">>, <<"1","0","0","0">>)>>,
         <<>>)

LBitrateNegative == Line(<<"#","E","X","T","-","X","-","B","I","T","R","A","T","E",":">>, <<V(<<"-","5">>)>>, <<>>)

EmptyValueLines ==
    {LMapEmpty, LProgramDateTimeEmpty, LStartEmpty, LPreloadHintEmpty,
     LRenditionReportEmpty, LBitrateNegative}

\* the lines with an attribute list
AttrLines ==
    {LKey, LKeyFake, LMap, LMapPlain, LMapComma, LMapMarker, LPart, LPartInf,
     LServerControl, LSkip, LSkip0, LStart, LStreamInf, LMedia, LRenditionReport,
     LIFrameStreamInf, LSessionData, LPreloadHint, LSessionKey}

Lines ==
    AttrLines \cup
    {LM3U, LVersion3, LVersion99, LVersionHuge, LTarget10, LTarget0,
     LPlaylistType, LMediaSequence, LMediaSequenceBad, LDiscontinuitySequence,
     LDiscontinuitySequenceBad, LDiscontinuity, LEndList, LIndependentSegments,
     LSegment, LSegmentNoTitle, LSegmentZero, LSegmentNoUri, LSegmentBare,
     LProgramDateTime, LPartBad, LPartInfAlt, LPartInfBad, LPartInfWord,
     LSkipHuge, LMediaBare, LByteRange, LGap, LUnknown, LStray}
    \cup EmptyValueLines

\* the lines that come before the line under study
ContextLines == {LM3U, LVersion99}

\* the number of lines before the line under study
MaxContext == 1

Contexts == UNION {[1..n -> ContextLines] : n \in 0..MaxContext}

\* scenario 1 of the specification, and the same without the stream marker
Scenario1 == <<LM3U, LVersion3, LTarget10, LSegment, LEndList>>

Scenario2 == <<LVersion3, LTarget10, LSegmentNoTitle, LEndList>>

Docs ==
    {c \o <<l>> \o e : c \in Contexts, l \in Lines, e \in {<<>>, <<LEndList>>}}
    \cup {<<>>, Scenario1, Scenario2}

(***************************************************************************)
(* The playlists a caller builds without parsing (the builder).            *)
(***************************************************************************)
None == <<>>

Some(x) == <<x>>

BuilderTags ==
    {ExtM3U, ExtXVersion(<<"3">>), ExtXVersion(<<"9","9">>), ExtXTargetDuration(<<"1","0">>),
     ExtInf(<<"s","e","g","m","e","n","t","1",".","t","s">>, F32(FALSE, <<"9">>, <<"5">>), Some(<<"T","i","t","l","e">>)),
     ExtInf(<<"s","e","g",".","t","s">>, F32(FALSE, <<"1","0">>, <<>>), None),
     ExtXEndList, ExtXGap, ExtXBitrate(Signed(FALSE, <<"8","0","0">>)),
     ExtXMap(<<"i",".","m","p","4">>, Some(<<"8","@","0">>)),
     ExtXKey(<<"A","E","S","-","1","2","8">>, Some(<<"k",".","b","i","n">>), None, None, None),
     ExtXPart(<<"p",".","t","s">>, Some(F32(FALSE, <<"5">>, <<>>)), Some(TRUE)),
     ExtXStart(<<"1",".","5">>, None),
     ExtXStreamInf(<<"5","0","0">>, Some(<<"6","4","0","x","3","6","0">>), Some(<<"a","v","c","1">>),
                   Some(F32(FALSE, <<"3","0">>, <<>>)), Some(<<"a","u","d">>), Some(<<"v","i","d">>),
                   Some(<<"s","u","b">>), None),
     ExtXPreloadHint(Some(<<"P","A","R","T">>), <<"p",".","t","s">>, Some(<<"1","@","2">>)),
     ExtXSkip(<<"3">>, None)}

\* tags that only a builder makes: a field that is empty, zero or negative
BrokenTags ==
    {ExtXVersion(<<"0">>), ExtXMap(<<>>, None), ExtXProgramDateTime(<<>>),
     ExtInf(<<"s",".","t","s">>, F32(TRUE, <<"1">>, <<"5">>), None),
     ExtXBitrate(Signed(TRUE, <<"5">>)), ExtXStart(<<>>, Some(TRUE)),
     ExtXPreloadHint(None, <<>>, Some(<<"1","@","2">>)),
     ExtXRenditionReport(<<>>, <<"1","0","0","0">>)}

\* the number of tags of a built playlist
MaxBuilt == 2

Built == UNION {[1..n -> BuilderTags \cup BrokenTags] : n \in 1..MaxBuilt}

(***************************************************************************)
(* The program: a caller reads a text with from_reader, or builds a        *)
(* playlist; it validates the playlist; it writes it with write_to_file    *)
(* and reads the file again.                                               *)
(***************************************************************************)
VARIABLES
    doc,      \* the document the first text was written from (never changed)
    content,  \* the text the reader gives to from_reader
    pc,       \* "text", "playlist" (a Playlist exists) or "panicked"
    tags,     \* Playlist.tags
    verdict,  \* None, or Some(the result of validate)
    origin,   \* the tags of the playlist that was written to the file
    writes    \* the number of calls of write_to_file

vars == <<doc, content, pc, tags, verdict, origin, writes>>

\* the number of times a playlist is written and read again
MaxWrites == 1

Init ==
    /\ \/ /\ doc \in Docs
          /\ content = TextOf(doc)
          /\ pc = "text"
          /\ tags = <<>>
       \/ /\ doc = <<>>
          /\ content = <<>>
          /\ pc = "playlist"
          /\ tags \in Built
    /\ verdict = None
    /\ origin = <<>>
    /\ writes = 0

FromReader ==
    /\ pc = "text"
    /\ \E r \in {from_reader(content)} :
           IF r.kind = "panic"
           THEN pc' = "panicked" /\ tags' = <<>>
           ELSE pc' = "playlist" /\ tags' = r.tags
    /\ verdict' = None
    /\ UNCHANGED <<doc, content, origin, writes>>

Validate ==
    /\ pc = "playlist"
    /\ verdict = None
    /\ verdict' = Some(validate(tags))
    /\ UNCHANGED <<doc, content, pc, tags, origin, writes>>

WriteToFile ==
    /\ pc = "playlist"
    /\ writes < MaxWrites
    /\ content' = write_to_file(tags)
    /\ origin' = tags
    /\ writes' = writes + 1
    /\ pc' = "text"
    /\ tags' = <<>>
    /\ verdict' = None
    /\ UNCHANGED doc

Next == FromReader \/ Validate \/ WriteToFile

Spec == Init /\ [][Next]_vars

(***************************************************************************)
(* What the claims speak of.                                               *)
(***************************************************************************)
\* a playlist was read from the text of the document doc (a built playlist
\* has no document), and nothing was written yet
Read == pc = "playlist" /\ writes = 0 /\ Len(doc) > 0

\* the text parse_line is given for the line l: from_reader splits at "#"
Piece(l) == Tail(LineText(l))

\* the line l with its attributes a and b exchanged, with attribute k left
\* out, with the attribute x put after attribute k
SwapAttrs(l, a, b) ==
    [l EXCEPT !.attrs =
        [k \in 1..Len(l.attrs) |->
            IF k = a THEN l.attrs[b] ELSE IF k = b THEN l.attrs[a] ELSE l.attrs[k]]]

WithoutAttr(l, k) ==
    [l EXCEPT !.attrs = SubSeq(@, 1, k - 1) \o SubSeq(@, k + 1, Len(@))]

WithAttr(l, k, x) ==
    [l EXCEPT !.attrs = SubSeq(@, 1, k) \o <<x>> \o SubSeq(@, k + 1, Len(@))]

\* a segment-info directive; one with a title and a URI line
IsSegment(l) == l.head = <<"#","E","X","T","I","N","F",":">>

IsTitledSegment(l) ==
    IsSegment(l) /\ Len(l.attrs) = 2 /\ Len(l.attrs[2].v) > 0 /\ Len(l.uri) > 0

\* the number of tags of ts of the variant
CountOf(ts, variant) == Cardinality({j \in 1..Len(ts) : ts[j].tag = variant})

\* C1: for every segment-info directive #EXTINF:<d>,<title> with a title
\* that is not empty, followed by the URI line <uri>, from_reader produces
\* one segment-info tag of duration d, title <title> and URI <uri>.
C1_TitledSegment ==
    Read =>
        \A i \in 1..Len(doc) :
            IsTitledSegment(doc[i]) =>
                /\ CountOf(tags, "ExtInf")
                       = Cardinality({k \in 1..Len(doc) : IsSegment(doc[k])})
                /\ \E j \in 1..Len(tags) :
                       tags[j] = ExtInf(doc[i].uri,
                                        ParseF32(doc[i].attrs[1].v)[1],
                                        Some(doc[i].attrs[2].v))

\* the tags ts with the URI u in every map tag
WithMapUri(ts, u) ==
    [j \in 1..Len(ts) |->
        IF ts[j].tag = "ExtXMap" THEN ExtXMap(u, ts[j].ExtXMap.byterange)
        ELSE ts[j]]

\* the lines whose quoted value holds a comma or the marker "#"
MarkedLines == {LMapComma, LMapMarker}

\* C2: a quoted attribute value that holds a comma or the marker "#" is the
\* field of the tag in full, and the tags of the text are those of the same
\* text with a quoted value without these characters: the text is never
\* split inside a quoted string.
C2_QuotedMarker ==
    Read =>
        \A i \in 1..Len(doc) :
            doc[i] \in MarkedLines =>
                \E r \in {from_reader(TextOf([doc EXCEPT ![i] = LMapPlain]))} :
                    /\ r.kind = "ok"
                    /\ \E j \in 1..Len(r.tags) : r.tags[j].tag = "ExtXMap"
                    /\ tags = WithMapUri(r.tags, doc[i].attrs[1].v)

\* the lines that are well formed whatever stands around them
SoundLines == {LM3U, LVersion99, LEndList}

\* C3: from_reader returns a Playlist for every text, it never panics: a
\* payload that is malformed or out of range affects its own line only, and
\* the other lines are parsed.
C3_NeverAborts ==
    (writes = 0 /\ pc # "text" /\ Len(doc) > 0) =>
        /\ pc = "playlist"
        /\ \A i \in 1..Len(doc) :
               doc[i] \in SoundLines =>
                   \E j \in 1..Len(tags) : OkSome(tags[j]) = parse_line(Piece(doc[i]))

\* C4: parse_line returns the same tag for an attribute-list directive
\* whatever the order of its attributes (here: for every exchange of two
\* attributes).
C4_AttributeOrder ==
    Read =>
        \A i \in 1..Len(doc) :
            doc[i] \in AttrLines =>
                \A a, b \in 1..Len(doc[i].attrs) :
                    parse_line(Piece(SwapAttrs(doc[i], a, b)))
                        = parse_line(Piece(doc[i]))

\* the field of the tag that the attribute key of the directive head sets,
\* if the field is optional (an Option of Tag): <<field>>, or <<>>
OptionalField(head, key) ==
    CASE head \in {<<"#","E","X","T","-","X","-","K","E","Y",":">>, <<"#","E","X","T","-","X","-","S","E","S","S","I","O","N","-","K","E","Y",":">>}
              /\ key = <<"U","R","I">> -> <<"uri">>
      [] head \in {<<"#","E","X","T","-","X","-","K","E","Y",":">>, <<"#","E","X","T","-","X","-","S","E","S","S","I","O","N","-","K","E","Y",":">>}
              /\ key = <<"I","V">> -> <<"iv">>
      [] head \in {<<"#","E","X","T","-","X","-","M","A","P",":">>, <<"#","E","X","T","-","X","-","P","R","E","L","O","A","D","-","H","I","N","T",":">>}
              /\ key = <<"B","Y","T","E","R","A","N","G","E">> -> <<"byterange">>
      [] head = <<"#","E","X","T","-","X","-","P","A","R","T",":">> /\ key = <<"D","U","R","A","T","I","O","N">> -> <<"duration">>
      [] head = <<"#","E","X","T","-","X","-","S","T","A","R","T",":">> /\ key = <<"P","R","E","C","I","S","E">> -> <<"precise">>
      [] head = <<"#","E","X","T","-","X","-","S","T","R","E","A","M","-","I","N","F",":">> /\ key = <<"R","E","S","O","L","U","T","I","O","N">> -> <<"resolution">>
      [] head = <<"#","E","X","T","-","X","-","S","T","R","E","A","M","-","I","N","F",":">> /\ key = <<"C","O","D","E","C","S">> -> <<"codecs">>
      [] head = <<"#","E","X","T","-","X","-","S","E","S","S","I","O","N","-","D","A","T","A",":">> /\ key = <<"L","A","N","G","U","A","G","E">> -> <<"language">>
      [] head = <<"#","E","X","T","-","X","-","M","E","D","I","A",":">> /\ key = <<"N","A","M","E">> -> <<"name">>
      [] head = <<"#","E","X","T","-","X","-","M","E","D","I","A",":">> /\ key = <<"L","A","N","G","U","A","G","E">> -> <<"language">>
      [] head = <<"#","E","X","T","-","X","-","M","E","D","I","A",":">> /\ key = <<"D","E","F","A","U","L","T">> -> <<"default">>
      [] head = <<"#","E","X","T","-","X","-","M","E","D","I","A",":">> /\ key = <<"A","U","T","O","S","E","L","E","C","T">> -> <<"autoplay">>
      [] head = <<"#","E","X","T","-","X","-","M","E","D","I","A",":">> /\ key = <<"U","R","I">> -> <<"uri">>
      [] head = <<"#","E","X","T","-","X","-","M","E","D","I","A",":">> /\ key = <<"C","H","A","R","A","C","T","E","R","I","S","T","I","C","S">> -> <<"characteristics">>
      [] head = <<"#","E","X","T","-","X","-","M","E","D","I","A",":">> /\ key = <<"L","A","N","G","U","A","G","E","-","C","O","D","E","C">> -> <<"language_codec">>
      [] head = <<"#","E","X","T","-","X","-","M","E","D","I","A",":">> /\ key = <<"I","N","S","T","R","E","A","M","-","I","D">> -> <<"instream_id">>
      [] head = <<"#","E","X","T","-","X","-","M","E","D","I","A",":">> /\ key = <<"F","O","R","C","E","D">> -> <<"forced">>
      [] head = <<"#","E","X","T","-","X","-","S","E","R","V","E","R","-","C","O","N","T","R","O","L",":">> /\ key = <<"C","A","N","-","B","L","O","C","K","-","R","E","L","O","A","D">> ->
            <<"can_block_reload">>
      [] head = <<"#","E","X","T","-","X","-","S","E","R","V","E","R","-","C","O","N","T","R","O","L",":">> /\ key = <<"P","A","R","T","-","H","O","L","D","-","B","A","C","K">> ->
            <<"part_hold_back">>
      [] head = <<"#","E","X","T","-","X","-","S","K","I","P",":">> /\ key = <<"R","E","C","E","N","T","L","Y","-","R","E","M","O","V","E","D","-","D","A","T","E","R","A","N","G","E","S">> ->
            <<"recently_removed_dateranges">>
      [] OTHER -> <<>>

\* the tag t with its field absent
Cleared(t, field) == [t EXCEPT ![t.tag][field] = None]

\* C5: leaving out an attribute that is optional for the tag still gives the
\* tag, with that field absent and every other field unchanged.
C5_OptionalOmitted ==
    Read =>
        \A i \in 1..Len(doc), j \in 1..Len(tags) :
            (doc[i] \in AttrLines /\ OkSome(tags[j]) = parse_line(Piece(doc[i]))) =>
                \A k \in 1..Len(doc[i].attrs) :
                    \A f \in {OptionalField(doc[i].head, doc[i].attrs[k].k)} :
                        Len(f) > 0 =>
                            parse_line(Piece(WithoutAttr(doc[i], k)))
                                = OkSome(Cleared(tags[j], f[1]))

\* an attribute no directive knows
UnknownAttr == P(<<"F","O","O">>, <<"1">>)

\* C6: an attribute-list directive that parses to a tag parses to the same
\* tag with one unknown KEY=value attribute put at any place of its list:
\* first, between two attributes, or last.
C6_UnknownAttribute ==
    Read =>
        \A i \in 1..Len(doc), j \in 1..Len(tags) :
            (doc[i] \in AttrLines /\ OkSome(tags[j]) = parse_line(Piece(doc[i]))) =>
                \A k \in 0..Len(doc[i].attrs) :
                    parse_line(Piece(WithAttr(doc[i], k, UnknownAttr)))
                        = OkSome(tags[j])

\* C7: a segment-info directive that no URI line follows gives no
\* segment-info tag.
C7_SegmentWithoutUri ==
    (Read /\ \A i \in 1..Len(doc) : IsSegment(doc[i]) => Len(doc[i].uri) = 0) =>
        CountOf(tags, "ExtInf") = 0

\* the number of the candidate lines of the text that gave no tag
Unreported(text) ==
    Cardinality({i \in 1..Len(Split(text, "#")) :
                    /\ Len(Split(text, "#")[i]) > 0
                    /\ parse_line(Split(text, "#")[i]) = OkNone})

\* C8: the result of from_reader carries the number of the lines that gave
\* no tag: two texts with the same result have the same number of them
\* (here: the text, and the text with one more line that is no directive
\* the parser knows).
C8_UnreportedLines ==
    Read =>
        \A other \in {TextOf(Append(doc, LUnknown))} :
            from_reader(other) = [kind |-> "ok", tags |-> tags] =>
                Unreported(other) = Unreported(TextOf(doc))

\* every field of every tag of ts is legal
InDomain(ts) == \A j \in 1..Len(ts) : validate_tag(ts[j]) = <<>>

\* C9: a playlist of tags with legal fields that is written and read again
\* is the same playlist: parsing the text of a tag gives the tag.
C9_RoundTrip ==
    (writes > 0 /\ pc # "text" /\ InDomain(origin)) =>
        pc = "playlist" /\ tags = origin

\* the number of MissingExtM3U in the errors es
Missing(es) == Cardinality({j \in 1..Len(es) : es[j] = MissingExtM3U})

\* the errors of a result of validate
ErrorsOf(v) == IF v.kind = "ok" THEN <<>> ELSE v.errors

\* C10: validate reports MissingExtM3U once if no ExtM3U tag is in the tags,
\* at whatever place, and never otherwise; tags that break no rule and hold
\* no ExtM3U give this one error only; validate returns Ok exactly when it
\* has no error to report.
C10_MissingMarker ==
    verdict # None =>
        \A v \in {verdict[1]} :
            /\ Missing(ErrorsOf(v))
                   = (IF \E j \in 1..Len(tags) : tags[j] = ExtM3U THEN 0 ELSE 1)
            /\ (InDomain(tags) /\ CountOf(tags, "ExtM3U") = 0) =>
                   v = [kind |-> "err", errors |-> <<MissingExtM3U>>]
            /\ v.kind = "ok" <=> (InDomain(tags) /\ CountOf(tags, "ExtM3U") > 0)
            /\ v.kind = "err" => Len(v.errors) > 0

\* a playlist was validated whose ExtM3U tag is its last tag and not its
\* first, and MissingExtM3U was not reported
C10_MarkerNotFirst ==
    /\ verdict # None
    /\ Len(tags) > 1
    /\ tags[1] # ExtM3U
    /\ tags[Len(tags)] = ExtM3U
    /\ Missing(ErrorsOf(verdict[1])) = 0

\* the versions 1 to 7
SupportedVersions == {<<"1">>, <<"2">>, <<"3">>, <<"4">>, <<"5">>, <<"6">>, <<"7">>}

\* the rule table: the violation of the tag t, <<violation>>, or <<>> if the
\* condition of its rule does not hold or t has no rule
Rule(t) ==
    CASE t.tag = "ExtXVersion" /\ t.ExtXVersion \notin SupportedVersions ->
            <<InvalidVersion(t.ExtXVersion)>>
      [] t.tag = "ExtInf"
              /\ (t.ExtInf.duration.neg
                  \/ (t.ExtInf.duration.ip = <<>> /\ t.ExtInf.duration.fp = <<>>)) ->
            <<InvalidDuration(t.ExtInf.duration)>>
      [] t.tag = "ExtXTargetDuration" /\ t.ExtXTargetDuration = <<"0">> ->
            <<InvalidTargetDuration(<<"0">>)>>
      [] t.tag = "ExtXKey"
              /\ t.ExtXKey.method \notin {<<"N","O","N","E">>, <<"A","E","S","-","1","2","8">>, <<"S","A","M","P","L","E","-","A","E","S">>} ->
            <<InvalidKeyMethod(t.ExtXKey.method)>>
      [] t.tag = "ExtXMap" /\ t.ExtXMap.uri = <<>> -> <<InvalidMapUri>>
      [] t.tag = "ExtXProgramDateTime" /\ t.ExtXProgramDateTime = <<>> ->
            <<InvalidProgramDateTime>>
      [] t.tag = "ExtXBitrate" /\ t.ExtXBitrate.neg -> <<InvalidBitrate(t.ExtXBitrate)>>
      [] t.tag = "ExtXStart" /\ t.ExtXStart.time_offset = <<>> -> <<InvalidStartOffset>>
      [] t.tag = "ExtXSkip" /\ t.ExtXSkip.skipped_segments = <<"0">> ->
            <<InvalidSkipTag(<<"S","K","I","P","P","E","D","-","S","E","G","M","E","N","T","S"," ","m","u","s","t"," ","b","e"," ","p","o","s","i","t","i","v","e">>)>>
      [] t.tag = "ExtXPreloadHint" /\ t.ExtXPreloadHint.uri = <<>> ->
            <<InvalidPreloadHintUri>>
      [] t.tag = "ExtXRenditionReport" /\ t.ExtXRenditionReport.uri = <<>> ->
            <<InvalidRenditionReportUri>>
      [] OTHER -> <<>>

\* the errors es without MissingExtM3U
TagViolations(es) == SelectSeq(es, LAMBDA e : e # MissingExtM3U)

\* C11: for every single tag, validate_tag adds exactly one violation, of the
\* kind the rule table gives, when the condition of the tag's rule holds
\* (version outside 1..7, segment duration <= 0, target duration 0, key
\* method not NONE, AES-128 or SAMPLE-AES, empty map URI, empty program
\* date-time, negative bitrate, empty start offset, skipped-segments 0, empty
\* preload-hint URI, empty rendition-report URI); the violation carries the
\* version, the duration, the target duration, the method or the bitrate of
\* the tag (InvalidSkipTag carries its message); validate_tag adds nothing
\* otherwise, and nothing for a tag with no rule.
C11_RuleTable ==
    verdict # None =>
        /\ \A j \in 1..Len(tags) : validate_tag(tags[j]) = Rule(tags[j])
        /\ Len(tags) = 1 => TagViolations(ErrorsOf(verdict[1])) = Rule(tags[1])

\* a playlist of the one tag ExtXKey with the method FAKE was validated, and
\* its one violation is InvalidKeyMethod("FAKE")
C11_FakeKeyReported ==
    /\ verdict # None
    /\ Len(tags) = 1
    /\ tags[1].tag = "ExtXKey"
    /\ TagViolations(ErrorsOf(verdict[1])) = <<InvalidKeyMethod(<<"F","A","K","E">>)>>

\* the violations of the rule table for the tags of ts from tag i on, in the
\* order of the tags
RECURSIVE RuleViolations(_, _)
RuleViolations(ts, i) ==
    IF i > Len(ts) THEN <<>> ELSE Rule(ts[i]) \o RuleViolations(ts, i + 1)

\* the kinds of the errors es
Kinds(es) == {es[j].err : j \in 1..Len(es)}

\* C12: validate walks every tag and never stops at the first violation: the
\* list it returns holds one violation for each occurrence of a tag that
\* breaks its rule, plus one for a missing stream marker, and nothing else,
\* so a playlist with N violations of different kinds yields exactly those
\* N; validate run again on the same playlist returns the same list.
C12_Exhaustive ==
    verdict # None =>
        \A es \in {ErrorsOf(verdict[1])} :
            /\ TagViolations(es) = RuleViolations(tags, 1)
            /\ Len(es) = Cardinality({j \in 1..Len(tags) : Rule(tags[j]) # <<>>})
                             + (IF CountOf(tags, "ExtM3U") = 0 THEN 1 ELSE 0)
            /\ \A j \in 1..Len(tags) :
                   Rule(tags[j]) # <<>> => \E k \in 1..Len(es) : <<es[k]>> = Rule(tags[j])
            /\ validate(tags) = verdict[1]

\* a playlist with three violations of three kinds was validated: no stream
\* marker and two tags that break different rules, and all three are in the
\* list
C12_ThreeKinds ==
    /\ verdict # None
    /\ Len(tags) = 2
    /\ Rule(tags[1]) # <<>> /\ Rule(tags[2]) # <<>>
    /\ Len(ErrorsOf(verdict[1])) = 3
    /\ Cardinality(Kinds(ErrorsOf(verdict[1]))) = 3

\* the leading keyword of a line: the text before its first ":", or before
\* the end of the line
KeywordOf(text) ==
    LET stop == {i \in 1..Len(text) : text[i] \in {":", "\n"}}
    IN  IF stop = {} THEN text
        ELSE SubSeq(text, 1, (CHOOSE i \in stop : \A j \in stop : i <= j) - 1)

\* the keyword of the directive of a variant of Tag
VariantKeyword(variant) ==
    CASE variant = "ExtM3U" -> <<"E","X","T","M","3","U">>
      [] variant = "ExtXVersion" -> <<"E","X","T","-","X","-","V","E","R","S","I","O","N">>
      [] variant = "ExtXTargetDuration" -> <<"E","X","T","-","X","-","T","A","R","G","E","T","D","U","R","A","T","I","O","N">>
      [] variant = "ExtXPlaylistType" -> <<"E","X","T","-","X","-","P","L","A","Y","L","I","S","T","-","T","Y","P","E">>
      [] variant = "ExtXMediaSequence" -> <<"E","X","T","-","X","-","M","E","D","I","A","-","S","E","Q","U","E","N","C","E">>
      [] variant = "ExtXDiscontinuitySequence" -> <<"E","X","T","-","X","-","D","I","S","C","O","N","T","I","N","U","I","T","Y","-","S","E","Q","U","E","N","C","E">>
      [] variant = "ExtXEndList" -> <<"E","X","T","-","X","-","E","N","D","L","I","S","T">>
      [] variant = "ExtXKey" -> <<"E","X","T","-","X","-","K","E","Y">>
      [] variant = "ExtXMap" -> <<"E","X","T","-","X","-","M","A","P">>
      [] variant = "ExtXProgramDateTime" -> <<"E","X","T","-","X","-","P","R","O","G","R","A","M","-","D","A","T","E","-","T","I","M","E">>
      [] variant = "ExtXDiscontinuity" -> <<"E","X","T","-","X","-","D","I","S","C","O","N","T","I","N","U","I","T","Y">>
      [] variant = "ExtXPart" -> <<"E","X","T","-","X","-","P","A","R","T">>
      [] variant = "ExtXPartInf" -> <<"E","X","T","-","X","-","P","A","R","T","-","I","N","F">>
      [] variant = "ExtXServerControl" -> <<"E","X","T","-","X","-","S","E","R","V","E","R","-","C","O","N","T","R","O","L">>
      [] variant = "ExtXSkip" -> <<"E","X","T","-","X","-","S","K","I","P">>
      [] variant = "ExtXStart" -> <<"E","X","T","-","X","-","S","T","A","R","T">>
      [] variant = "ExtXIndependentSegments" -> <<"E","X","T","-","X","-","I","N","D","E","P","E","N","D","E","N","T","-","S","E","G","M","E","N","T","S">>
      [] variant = "ExtXStreamInf" -> <<"E","X","T","-","X","-","S","T","R","E","A","M","-","I","N","F">>
      [] variant = "ExtXMedia" -> <<"E","X","T","-","X","-","M","E","D","I","A">>
      [] variant = "ExtXRenditionReport" -> <<"E","X","T","-","X","-","R","E","N","D","I","T","I","O","N","-","R","E","P","O","R","T">>
      [] variant = "ExtXByteRange" -> <<"E","X","T","-","X","-","B","Y","T","E","R","A","N","G","E">>
      [] variant = "ExtXIFrameStreamInf" -> <<"E","X","T","-","X","-","I","-","F","R","A","M","E","-","S","T","R","E","A","M","-","I","N","F">>
      [] variant = "ExtXSessionData" -> <<"E","X","T","-","X","-","S","E","S","S","I","O","N","-","D","A","T","A">>
      [] variant = "ExtXPreloadHint" -> <<"E","X","T","-","X","-","P","R","E","L","O","A","D","-","H","I","N","T">>
      [] variant = "ExtInf" -> <<"E","X","T","I","N","F">>
      [] variant = "ExtXSessionKey" -> <<"E","X","T","-","X","-","S","E","S","S","I","O","N","-","K","E","Y">>
      [] variant = "ExtXGap" -> <<"E","X","T","-","X","-","G","A","P">>
      [] variant = "ExtXBitrate" -> <<"E","X","T","-","X","-","B","I","T","R","A","T","E">>

\* C13: parse_line returns a tag of a variant only for a line whose leading
\* keyword is exactly the keyword of the variant: a line whose keyword
\* extends a shorter keyword (EXT-X-DISCONTINUITY-SEQUENCE, EXT-X-PART-INF,
\* EXT-X-MEDIA-SEQUENCE) is never parsed as the tag of the shorter
\* directive, also when its payload is malformed.
C13_ExactKeyword ==
    Read =>
        \A i \in 1..Len(doc) :
            \A r \in {parse_line(Piece(doc[i]))} :
                r.kind = "some" => VariantKeyword(r.tag.tag) = KeywordOf(Piece(doc[i]))

\* the kinds of violation that a playlist read from a text can have
ReaderKinds ==
    {"MissingExtM3U", "InvalidVersion", "InvalidDuration", "InvalidTargetDuration",
     "InvalidKeyMethod", "InvalidSkipTag"}

\* the playlist is the result of from_reader: of the text of a document, or
\* of a file that write_to_file wrote
FromText == pc = "playlist" /\ (Len(doc) > 0 \/ writes > 0)

\* C14: for a playlist obtained from from_reader, validate reports only
\* MissingExtM3U, InvalidVersion, InvalidDuration, InvalidTargetDuration,
\* InvalidKeyMethod and InvalidSkipTag: never InvalidMapUri,
\* InvalidProgramDateTime, InvalidStartOffset, InvalidPreloadHintUri,
\* InvalidRenditionReportUri or InvalidBitrate, since parse_line builds no
\* tag with an empty URI, date-time or offset and no bitrate tag.
C14_ReaderViolations ==
    (FromText /\ verdict # None) =>
        /\ Kinds(ErrorsOf(verdict[1])) \subseteq ReaderKinds
        /\ \A j \in 1..Len(tags) :
               /\ tags[j].tag # "ExtXBitrate"
               /\ tags[j].tag = "ExtXMap" => tags[j].ExtXMap.uri # <<>>
               /\ tags[j].tag = "ExtXProgramDateTime" => tags[j].ExtXProgramDateTime # <<>>
               /\ tags[j].tag = "ExtXStart" => tags[j].ExtXStart.time_offset # <<>>
               /\ tags[j].tag = "ExtXPreloadHint" => tags[j].ExtXPreloadHint.uri # <<>>
               /\ tags[j].tag = "ExtXRenditionReport" =>
                      tags[j].ExtXRenditionReport.uri # <<>>

\* a text with a directive of empty value (or the bitrate directive) after
\* a version 99 was read and validated: InvalidVersion is reported, and
\* nothing for the directive
C14_EmptyValueRead ==
    /\ FromText
    /\ verdict # None
    /\ \E i \in 1..Len(doc) : doc[i] \in EmptyValueLines
    /\ "InvalidVersion" \in Kinds(ErrorsOf(verdict[1]))
====
